---------------------------- MODULE Spec2Model ----------------------------
(***************************************************************************)
(* Model of the document-chat backend: the SessionManager singleton, the   *)
(* VectorStoreService collection map, DocumentService.process_upload and   *)
(* the streaming query pipeline (QueryService.query_stream consumed by     *)
(* the /query route's event_generator).                                    *)
(*                                                                         *)
(* The service runs on one asyncio event loop: a handler runs without      *)
(* interruption between two awaits that really suspend.  An action of      *)
(* this module is one such uninterrupted stretch of a handler.             *)
(***************************************************************************)
EXTENDS Integers, Sequences, FiniteSets, TLC

(***************************************************************************)
(* Bounds of the model.                                                    *)
(***************************************************************************)
\* How many sessions (collection names) are ever generated in a run.
MaxSessions == 2
\* How many fragments the generation client produces at most in one query.
MaxFragments == 2

(***************************************************************************)
(* Program constants.                                                      *)
(***************************************************************************)
\* Settings.top_k_chunks
top_k_chunks == 3
\* Settings.max_page_limit
max_page_limit == 50
\* Settings.max_file_size_mb
max_file_size_mb == 20

\* Settings.allowed_extensions
allowed_extensions == {"pdf", "txt", "docx"}

(***************************************************************************)
(* Values.  Python's None is NoName for a collection name (names are the   *)
(* positive integers n of "session_<n>"), "None" for a filename, and the   *)
(* empty tuple for an optional field of a response (<<x>> is the value x). *)
(***************************************************************************)
NoName == 0
NoPage == -1

Uploaders == {"u1", "u2"}
Queries == {"q1"}
Questions == {"What is X?"}
Fragments == {"The ", "X."}

\* A langchain Document of a processed file: its text, and the 0-based page
\* index the loader put in metadata["page"] (NoPage when the loader sets none).
Doc(content, page) == [content |-> content, page |-> page, filename |-> "None"]

\* The uploads of the model: filename ("None" for an upload that has none),
\* extension, size in MB, and the chunks the document processor yields for
\* the file when it can load it.
Files ==
  { [filename |-> "report.pdf", ext |-> "pdf", size_mb |-> 1,
     chunks |-> <<Doc("r0", 0), Doc("r1", 1)>>],
    [filename |-> "notes.txt", ext |-> "txt", size_mb |-> 1,
     chunks |-> <<Doc("n0", NoPage)>>],
    [filename |-> "long.pdf", ext |-> "pdf", size_mb |-> 2,
     chunks |-> <<Doc("l0", 0), Doc("l1", 50)>>],
    [filename |-> "vast.pdf", ext |-> "pdf", size_mb |-> 2,
     chunks |-> <<Doc("v0", 0), Doc("v1", 51)>>],
    [filename |-> "None", ext |-> "", size_mb |-> 1,
     chunks |-> <<>>],
    [filename |-> "huge.pdf", ext |-> "pdf", size_mb |-> 21,
     chunks |-> <<Doc("h0", 0)>>],
    [filename |-> "tool.exe", ext |-> "exe", size_mb |-> 1,
     chunks |-> <<>>] }

NoFile == [filename |-> "None", ext |-> "", size_mb |-> 0, chunks |-> <<>>]

Max(a, b) == IF a >= b THEN a ELSE b
Min(a, b) == IF a <= b THEN a ELSE b

VARIABLES
  session,      \* SessionManager._state
  collections,  \* VectorStoreService._collections: name -> stored documents
  nextUuid,     \* the next value uuid4 yields
  upload,       \* per upload request: position in process_upload and result
  query,        \* per query request: position in the stream and what it did
  client,       \* a direct caller of the SessionManager: its last call, what
                \* the call returned, and every name create_session returned
  health,       \* GET /health: the last response and the number of calls
  estimate      \* a call of _estimate_page_count: its chunks and its result

vars ==
  <<session, collections, nextUuid, upload, query, client, health, estimate>>

(***************************************************************************)
(* SessionManager (core/session.py)                                        *)
(***************************************************************************)
\* SessionState(): the default, inactive state.
SessionState ==
  [is_active |-> FALSE, filename |-> "None", page_count |-> 0,
   chunk_count |-> 0, created_at |-> 0, collection_name |-> NoName]

create_session_swapped(filename, page_count, chunk_count, uuid) ==
  [state |-> [is_active |-> TRUE, filename |-> filename,
              page_count |-> chunk_count, chunk_count |-> page_count,
              created_at |-> uuid, collection_name |-> uuid],
   ret |-> uuid]

create_session_fixed_name(filename, page_count, chunk_count, uuid) ==
  [state |-> [is_active |-> TRUE, filename |-> filename,
              page_count |-> page_count, chunk_count |-> chunk_count,
              created_at |-> uuid, collection_name |-> 1],
   ret |-> 1]

\* SessionManager.create_session: the new state and the returned name.
\* uuid is the value uuid4 yields; created_at is the logical creation time.
create_session(filename, page_count, chunk_count, uuid) ==
  [state |-> [is_active |-> TRUE, filename |-> filename,
              page_count |-> page_count, chunk_count |-> chunk_count,
              created_at |-> uuid, collection_name |-> uuid],
   ret |-> uuid]

clear_session_returns_after_reset(state) ==
  [state |-> SessionState, ret |-> SessionState.collection_name]

clear_session_keepname(state) ==
  [state |-> [SessionState EXCEPT !.collection_name = state.collection_name],
   ret |-> state.collection_name]

\* SessionManager.clear_session: the new state and the returned old name.
clear_session(state) ==
  [state |-> SessionState, ret |-> state.collection_name]

\* SessionManager.is_active / SessionManager.collection_name
is_active(state) == state.is_active
collection_name(state) == state.collection_name

\* SessionManager.get_state: a copy of the state.
get_state(state) == state

(***************************************************************************)
(* VectorStoreService (services/vector_store_service.py)                   *)
(***************************************************************************)
\* A function without the key k.
Without(f, k) == [x \in DOMAIN f \ {k} |-> f[x]]
\* A function with the key k bound to v.
With(f, k, v) == [x \in DOMAIN f \cup {k} |-> IF x = k THEN v ELSE f[x]]

create_collection_overwrites(colls, name, documents, chroma_ok) ==
  IF ~chroma_ok
    THEN [raised |-> "Exception", colls |-> colls, ret |-> 0]
  ELSE [raised |-> "None", colls |-> With(colls, name, documents),
        ret |-> Len(documents)]

\* VectorStoreService.create_collection.  chroma_ok is whether
\* Chroma.from_documents (embedding and indexing) succeeds.
create_collection(colls, name, documents, chroma_ok) ==
  IF name \in DOMAIN colls
    THEN [raised |-> "ValueError", colls |-> colls, ret |-> 0]
  ELSE IF ~chroma_ok
    THEN [raised |-> "Exception", colls |-> colls, ret |-> 0]
  ELSE [raised |-> "None", colls |-> With(colls, name, documents),
        ret |-> Len(documents)]

delete_collection_keeps_tracking(colls, name, chroma_ok) ==
  IF name \notin DOMAIN colls
    THEN [raised |-> "None", colls |-> colls, ret |-> FALSE]
  ELSE IF ~chroma_ok
    THEN [raised |-> "Exception", colls |-> colls, ret |-> FALSE]
  ELSE [raised |-> "None", colls |-> colls, ret |-> TRUE]

\* VectorStoreService.delete_collection.  chroma_ok is whether Chroma's own
\* delete_collection succeeds; when it raises, the name stays in the map.
delete_collection(colls, name, chroma_ok) ==
  IF name \notin DOMAIN colls
    THEN [raised |-> "None", colls |-> colls, ret |-> FALSE]
  ELSE IF ~chroma_ok
    THEN [raised |-> "Exception", colls |-> colls, ret |-> FALSE]
  ELSE [raised |-> "None", colls |-> Without(colls, name), ret |-> TRUE]


\* The name tempfile.NamedTemporaryFile gives the saved upload: a random stem
\* with the upload's suffix (".tmp" when the upload has no filename).
TempName(file) ==
  CASE file.filename = "None" -> "tmpXXXX.tmp"
    [] file.ext = "pdf" -> "tmpXXXX.pdf"
    [] file.ext = "txt" -> "tmpXXXX.txt"
    [] file.ext = "docx" -> "tmpXXXX.docx"
    [] OTHER -> "tmpXXXX.bin"

ChunkCounts == {Len(f.chunks) : f \in Files}
\* The largest number of chunks a file of the model has.
MaxChunks == CHOOSE n \in ChunkCounts : \A m \in ChunkCounts : m <= n

\* The relevance score of the i-th best result, in hundredths (0.90, 0.80,
\* ...): scores are best-first.
RankScore(i) == 100 - 10 * i

\* What Chroma's similarity search decides for one query: it fails, or it
\* ranks the stored documents (order: a permutation of the positions).
Rankings ==
  { r \in [order : [1..MaxChunks -> 1..MaxChunks], ok : BOOLEAN] :
      /\ \A i, j \in 1..MaxChunks : i # j => r.order[i] # r.order[j]
      /\ (~r.ok => \A i \in 1..MaxChunks : r.order[i] = i) }

\* The positions of seq that are <= n, in order.
RECURSIVE KeepUpTo(_, _)
KeepUpTo(seq, n) ==
  IF seq = <<>> THEN <<>>
  ELSE IF Head(seq) <= n THEN <<Head(seq)>> \o KeepUpTo(Tail(seq), n)
  ELSE KeepUpTo(Tail(seq), n)

\* Chroma.similarity_search_with_relevance_scores(query_text, k): the k best
\* stored documents under the ranking, best first, each with its score.
similarity_search_with_relevance_scores(documents, k, rank) ==
  LET order == KeepUpTo([i \in 1..MaxChunks |-> rank.order[i]], Len(documents))
      n == Min(k, Len(order))
  IN [i \in 1..n |-> [doc |-> documents[order[i]], score |-> RankScore(i)]]

\* RetrievedChunk(...) as VectorStoreService.query builds it from one result:
\* metadata.get("page", 0) + 1, metadata.get("chunk_index", 0) (the processor
\* sets no chunk_index), metadata.get("filename", ...).
RetrievedChunk(result) ==
  [content |-> result.doc.content,
   page_number |-> (IF result.doc.page = NoPage THEN 0 ELSE result.doc.page) + 1,
   chunk_index |-> 0,
   relevance_score |-> result.score,
   source |-> result.doc.filename]

\* VectorStoreService.get_collection: raises when the name is not tracked.
get_collection(colls, name) ==
  IF name \notin DOMAIN colls
    THEN [raised |-> "CollectionNotFoundError", ret |-> <<>>]
    ELSE [raised |-> "None", ret |-> colls[name]]

\* VectorStoreService.query: the raised exception or the retrieved chunks, in
\* the order of Chroma's results.  top_k = 0 stands for top_k=None.
vs_query(colls, name, query_text, top_k, rank) ==
  LET c == get_collection(colls, name)
      k == IF top_k = 0 THEN top_k_chunks ELSE top_k
  IN IF c.raised # "None" THEN [raised |-> c.raised, ret |-> <<>>]
     ELSE IF ~rank.ok THEN [raised |-> "Exception", ret |-> <<>>]
     ELSE LET results == similarity_search_with_relevance_scores(c.ret, k, rank)
          IN [raised |-> "None",
              ret |-> [i \in 1..Len(results) |-> RetrievedChunk(results[i])]]

\* VectorStoreService.list_collections
list_collections(colls) == DOMAIN colls

(***************************************************************************)
(* Exceptions (core/exceptions.py): the type and str(e).                   *)
(***************************************************************************)
Exc(type, msg) == [type |-> type, msg |-> msg]
NoExc == Exc("None", "")

NoActiveSessionError ==
  Exc("NoActiveSessionError", "No document loaded. Please upload a document first.")
QueryError(msg) == Exc("QueryError", msg)
LLMError(msg) == Exc("LLMError", msg)

RetrievalFailedMsg == "Failed to retrieve relevant context from vector store"
GenerationFailedMsg == "Failed to generate response from LLM"
UnexpectedQueryMsg == "An unexpected error occurred during query"
UnexpectedRouteMsg == "An unexpected error occurred"

(***************************************************************************)
(* LLMService.generate_stream (services/llm_service.py)                    *)
(***************************************************************************)
\* What self._llm.astream hands over at one step: a chunk (its content, and
\* whether the content is a str: a message chunk's content may be a list of
\* parts), the end of the stream, or an exception.
RawChunk(content, is_str) ==
  [kind |-> "chunk", content |-> content, is_str |-> is_str]
RawEnd == [kind |-> "end", content |-> "", is_str |-> TRUE]
RawError == [kind |-> "error", content |-> "", is_str |-> TRUE]

RawDecisive ==
  {RawChunk(f, TRUE) : f \in Fragments} \cup {RawChunk("parts", FALSE)}
    \cup {RawEnd, RawError}
\* What astream hands over until generate_stream yields, ends or raises: at
\* most one chunk of empty content, then a decisive step.
RawBatches ==
  {<<r>> : r \in RawDecisive} \cup {<<RawChunk("", TRUE), r>> : r \in RawDecisive}

\* One __anext__ of generate_stream: chunks of empty content are skipped, a
\* chunk with content is yielded, any exception of astream becomes LLMError.
RECURSIVE generate_stream_next(_)
generate_stream_next(raws) ==
  LET r == Head(raws)
  IN CASE r.kind = "end" -> [kind |-> "stop", content |-> "", is_str |-> TRUE, exc |-> NoExc]
       [] r.kind = "error" ->
            [kind |-> "raise", content |-> "", is_str |-> TRUE,
             exc |-> LLMError("Failed to generate streaming response from LLM")]
       [] r.kind = "chunk" /\ r.is_str /\ r.content = "" ->
            generate_stream_next(Tail(raws))
       [] OTHER ->
            [kind |-> "yield", content |-> r.content, is_str |-> r.is_str, exc |-> NoExc]

(***************************************************************************)
(* QueryService (services/query_service.py)                                *)
(***************************************************************************)
\* StreamingQueryResponse: an optional field is <<>> (None) or <<value>>.
StreamingQueryResponse(token, sources, is_done, error) ==
  [token |-> token, sources |-> sources, is_done |-> is_done, error |-> error]
TokenResponse(t) == StreamingQueryResponse(<<t>>, <<>>, FALSE, <<>>)
SourcesResponse(s) == StreamingQueryResponse(<<>>, <<s>>, FALSE, <<>>)
DoneResponse == StreamingQueryResponse(<<>>, <<>>, TRUE, <<>>)

\* The formatted context of _retrieve_context: one part per chunk, in the
\* order of the chunks, "[Chunk i - Page p, Score: s]\ncontent".
FormatContext(chunks) ==
  [i \in 1..Len(chunks) |->
     [chunk |-> i, page |-> chunks[i].page_number,
      score |-> chunks[i].relevance_score, content |-> chunks[i].content]]

retrieve_context_swallows(colls, question, name, rank) ==
  LET r == vs_query(colls, name, question, top_k_chunks, rank)
  IN [raised |-> "None", chunks |-> r.ret,
      formatted_context |-> FormatContext(r.ret), top_k |-> top_k_chunks]

\* QueryService._retrieve_context: one call of the store's query, with
\* top_k=self._top_k, which get_query_service sets to settings.top_k_chunks.
retrieve_context(colls, question, name, rank) ==
  LET r == vs_query(colls, name, question, top_k_chunks, rank)
  IN [raised |-> r.raised, chunks |-> r.ret,
      formatted_context |-> FormatContext(r.ret), top_k |-> top_k_chunks]

\* QueryService._build_prompt
build_prompt(question, context) ==
  [context |-> context.formatted_context, question |-> question]

chunks_to_sources_reversed(chunks) ==
  [i \in 1..Len(chunks) |->
     LET c == chunks[Len(chunks) + 1 - i]
     IN [content |-> c.content, page_number |-> c.page_number,
         chunk_index |-> c.chunk_index, relevance_score |-> c.relevance_score,
         filename |-> c.source]]

\* QueryService._chunks_to_sources
chunks_to_sources(chunks) ==
  [i \in 1..Len(chunks) |->
     [content |-> chunks[i].content, page_number |-> chunks[i].page_number,
      chunk_index |-> chunks[i].chunk_index,
      relevance_score |-> chunks[i].relevance_score,
      filename |-> chunks[i].source]]

query_stream_outer_passes(exc) == exc

\* The handlers that close query_stream's outer try: NoActiveSessionError
\* and QueryError pass, any other exception becomes a QueryError.
query_stream_outer(exc) ==
  IF exc.type \in {"NoActiveSessionError", "QueryError"} THEN exc
  ELSE QueryError(UnexpectedQueryMsg)

query_stream_start_unvalidated(state, colls, question, rank) ==
  LET context == retrieve_context(colls, question, collection_name(state), rank)
  IN IF context.raised # "None"
       THEN [raised |-> query_stream_outer(QueryError(RetrievalFailedMsg)),
             chunks |-> <<>>, prompt |-> <<>>, store_queries |-> 1,
             store_top_k |-> context.top_k]
       ELSE [raised |-> NoExc, chunks |-> context.chunks,
             prompt |-> <<build_prompt(question, context)>>,
             store_queries |-> 1, store_top_k |-> context.top_k]

query_stream_start_oldest_collection(state, colls, question, rank) ==
  IF ~is_active(state) \/ collection_name(state) = NoName
    THEN [raised |-> query_stream_outer(NoActiveSessionError), chunks |-> <<>>,
          prompt |-> <<>>, store_queries |-> 0, store_top_k |-> 0]
  ELSE LET names == list_collections(colls)
           name == IF names = {} THEN collection_name(state)
                   ELSE CHOOSE n \in names : \A m \in names : n <= m
           context == retrieve_context(colls, question, name, rank)
       IN IF context.raised # "None"
            THEN [raised |-> query_stream_outer(QueryError(RetrievalFailedMsg)),
                  chunks |-> <<>>, prompt |-> <<>>, store_queries |-> 1,
                  store_top_k |-> context.top_k]
            ELSE [raised |-> NoExc, chunks |-> context.chunks,
                  prompt |-> <<build_prompt(question, context)>>,
                  store_queries |-> 1, store_top_k |-> context.top_k]

\* query_stream from its first line to the call of generate_stream (steps 1
\* to 3): the exception raised if any, the retrieved chunks, the prompt, and
\* how often the store was queried.
query_stream_start(state, colls, question, rank) ==
  IF ~is_active(state) \/ collection_name(state) = NoName
    THEN [raised |-> query_stream_outer(NoActiveSessionError), chunks |-> <<>>,
          prompt |-> <<>>, store_queries |-> 0, store_top_k |-> 0]
  ELSE LET context == retrieve_context(colls, question, collection_name(state), rank)
       IN IF context.raised # "None"
            THEN [raised |-> query_stream_outer(QueryError(RetrievalFailedMsg)),
                  chunks |-> <<>>, prompt |-> <<>>, store_queries |-> 1,
                  store_top_k |-> context.top_k]
            ELSE [raised |-> NoExc, chunks |-> context.chunks,
                  prompt |-> <<build_prompt(question, context)>>,
                  store_queries |-> 1, store_top_k |-> context.top_k]

query_stream_on_llm_error_ends(out, chunks) ==
  CASE out.kind = "yield" /\ out.is_str ->
         [raised |-> NoExc, response |-> <<TokenResponse(out.content)>>]
    [] out.kind = "yield" /\ ~out.is_str ->
         [raised |-> query_stream_outer(Exc("ValidationError", "token")),
          response |-> <<>>]
    [] OTHER ->
         [raised |-> NoExc,
          response |-> <<SourcesResponse(chunks_to_sources(chunks))>>]

query_stream_on_llm_rechecks_session(out, chunks) ==
  CASE out.kind = "yield" /\ out.is_str ->
         [raised |-> NoExc, response |-> <<TokenResponse(out.content)>>]
    [] out.kind = "yield" /\ ~out.is_str ->
         [raised |-> query_stream_outer(Exc("ValidationError", "token")),
          response |-> <<>>]
    [] out.kind = "raise" /\ out.exc.type = "LLMError" ->
         [raised |-> query_stream_outer(QueryError(GenerationFailedMsg)),
          response |-> <<>>]
    [] out.kind = "raise" ->
         [raised |-> query_stream_outer(out.exc), response |-> <<>>]
    [] ~is_active(session) ->
         [raised |-> query_stream_outer(NoActiveSessionError), response |-> <<>>]
    [] OTHER ->
         [raised |-> NoExc,
          response |-> <<SourcesResponse(chunks_to_sources(chunks))>>]

\* The body of query_stream's async for (step 4) on one outcome of
\* generate_stream: a str fragment is yielded as a token response; a content
\* that is no str fails StreamingQueryResponse's validation (an exception
\* that is no LLMError); LLMError becomes QueryError; the end of the stream
\* leads to step 5, the sources response.
query_stream_on_llm(out, chunks) ==
  CASE out.kind = "yield" /\ out.is_str ->
         [raised |-> NoExc, response |-> <<TokenResponse(out.content)>>]
    [] out.kind = "yield" /\ ~out.is_str ->
         [raised |-> query_stream_outer(Exc("ValidationError", "token")),
          response |-> <<>>]
    [] out.kind = "raise" /\ out.exc.type = "LLMError" ->
         [raised |-> query_stream_outer(QueryError(GenerationFailedMsg)),
          response |-> <<>>]
    [] out.kind = "raise" ->
         [raised |-> query_stream_outer(out.exc), response |-> <<>>]
    [] OTHER ->
         [raised |-> NoExc,
          response |-> <<SourcesResponse(chunks_to_sources(chunks))>>]

(***************************************************************************)
(* The /query route (api/routes/query.py): event_generator                 *)
(***************************************************************************)
TokenEvent(t) == [event |-> "token", token |-> t]
SourcesEvent(s) == [event |-> "sources", sources |-> s]
DoneEvent == [event |-> "done", status |-> "complete"]
ErrorEvent(msg) == [event |-> "error", error |-> msg]

\* Python's truth of an optional str.
Truthy(opt) == opt # <<>> /\ opt[1] # ""

event_generator_on_response_no_sources(response) ==
  IF Truthy(response.error)
    THEN [events |-> <<ErrorEvent(response.error[1])>>, return |-> TRUE]
  ELSE [events |->
          (IF response.token # <<>> THEN <<TokenEvent(response.token[1])>> ELSE <<>>)
          \o (IF response.is_done THEN <<DoneEvent>> ELSE <<>>),
        return |-> FALSE]

\* The body of event_generator's async for on one response: the events it
\* yields, and whether it returns (ends the stream) after them.
event_generator_on_response(response) ==
  IF Truthy(response.error)
    THEN [events |-> <<ErrorEvent(response.error[1])>>, return |-> TRUE]
  ELSE [events |->
          (IF response.token # <<>> THEN <<TokenEvent(response.token[1])>> ELSE <<>>)
          \o (IF response.sources # <<>>
                THEN <<SourcesEvent(response.sources[1])>> ELSE <<>>)
          \o (IF response.is_done THEN <<DoneEvent>> ELSE <<>>),
        return |-> FALSE]

event_generator_on_raise_silent(exc) == <<>>

\* The except clauses of event_generator: one error event per exception.
event_generator_on_raise(exc) ==
  IF exc.type \in {"NoActiveSessionError", "QueryError"}
    THEN <<ErrorEvent(exc.msg)>>
    ELSE <<ErrorEvent(UnexpectedRouteMsg)>>

(***************************************************************************)
(* POST /query/sync (api/routes/query.py, query_document_sync)             *)
(***************************************************************************)
\* QueryRequest.top_k when the request carries none.
NoTopK == 0
\* The top_k values of the requests of the model.
RequestTopKs == {NoTopK, 1}
\* QueryRequest(query, top_k)
QueryRequests == [query : Questions, top_k : RequestTopKs]
\* The requests that carry no top_k.
PlainRequests == {request \in QueryRequests : request.top_k = NoTopK}

\* The characters of a fragment of the model.
FragmentText(f) ==
  CASE f = "The " -> <<"T", "h", "e", " ">>
    [] f = "X." -> <<"X", ".">>
    [] f = "" -> <<>>
    [] OTHER -> <<f>>

\* "".join(tokens), as the sequence of its characters.
RECURSIVE Join(_)
Join(tokens) ==
  IF tokens = <<>> THEN <<>>
  ELSE FragmentText(Head(tokens)) \o Join(Tail(tokens))

QueryResponse(answer, sources) == [answer |-> answer, sources |-> sources]
HTTPException(status_code, detail) ==
  Exc("HTTPException", [status_code |-> status_code, detail |-> detail])

\* The loop of query_document_sync over the responses of query_stream: a
\* truthy token is appended, truthy sources replace the sources.
RECURSIVE SyncCollect(_, _, _)
SyncCollect(responses, tokens, sources) ==
  IF responses = <<>> THEN [tokens |-> tokens, sources |-> sources]
  ELSE LET response == Head(responses)
           tokens2 == IF response.token # <<>> /\ response.token[1] # ""
                        THEN Append(tokens, response.token[1]) ELSE tokens
           sources2 == IF response.sources # <<>> /\ response.sources[1] # <<>>
                         THEN response.sources[1] ELSE sources
       IN SyncCollect(Tail(responses), tokens2, sources2)

query_document_sync_partial_answer(yielded, raised) ==
  LET c == SyncCollect(yielded, <<>>, <<>>)
  IN IF raised.type = "NoActiveSessionError"
       THEN [raised |-> HTTPException(400, raised.msg), response |-> <<>>]
     ELSE IF raised.type = "QueryError" /\ c.tokens = <<>>
       THEN [raised |-> HTTPException(422, raised.msg), response |-> <<>>]
     ELSE [raised |-> NoExc,
           response |-> <<QueryResponse(Join(c.tokens), c.sources)>>]

query_document_sync_last_token(yielded, raised) ==
  LET c == SyncCollect(yielded, <<>>, <<>>)
      last == IF c.tokens = <<>> THEN <<>> ELSE <<c.tokens[Len(c.tokens)]>>
  IN IF raised.type = "NoActiveSessionError"
       THEN [raised |-> HTTPException(400, raised.msg), response |-> <<>>]
     ELSE IF raised.type = "QueryError"
       THEN [raised |-> HTTPException(422, raised.msg), response |-> <<>>]
     ELSE IF raised # NoExc
       THEN [raised |-> raised, response |-> <<>>]
     ELSE [raised |-> NoExc,
           response |-> <<QueryResponse(Join(last), c.sources)>>]

\* query_document_sync on a run of query_stream that yielded the responses
\* and then ended or raised: the HTTPException raised (400 for
\* NoActiveSessionError, 422 for QueryError; another exception is not
\* caught), or the QueryResponse returned.
query_document_sync(yielded, raised) ==
  LET c == SyncCollect(yielded, <<>>, <<>>)
  IN IF raised.type = "NoActiveSessionError"
       THEN [raised |-> HTTPException(400, raised.msg), response |-> <<>>]
     ELSE IF raised.type = "QueryError"
       THEN [raised |-> HTTPException(422, raised.msg), response |-> <<>>]
     ELSE IF raised # NoExc
       THEN [raised |-> raised, response |-> <<>>]
     ELSE [raised |-> NoExc,
           response |-> <<QueryResponse(Join(c.tokens), c.sources)>>]

\* Nothing was collected: the run of query_stream has not ended.
NoCollected == [raised |-> NoExc, response |-> <<>>]

(***************************************************************************)
(* DocumentService (services/document_service.py)                          *)
(***************************************************************************)
UnsupportedFileTypeError(ext) == Exc("UnsupportedFileTypeError", ext)
FileTooLargeError == Exc("FileTooLargeError", "File size exceeds limit")
PageLimitExceededError == Exc("PageLimitExceededError", "Document exceeds page limit")
ProcessingError(msg) == Exc("ProcessingError", msg)

\* DocumentService._validate_file: the exception raised, NoExc if none.
validate_file(file) ==
  IF file.filename # "None" /\ file.ext \notin allowed_extensions
    THEN UnsupportedFileTypeError(file.ext)
  ELSE IF file.size_mb # 0 /\ file.size_mb > max_file_size_mb
    THEN FileTooLargeError
  ELSE NoExc

\* What the loader and the splitter of the document processor do with an
\* upload: they succeed, the loader raises or the splitter raises.
LoadOutcomes == {"ok", "load_error", "split_error"}

\* str(e) of the DocumentProcessingError of process_document: the text of
\* the stage that failed and of the exception it caught.
DocumentProcessingMsg(loads) ==
  CASE loads = "load_error" -> "Failed to load document: EOF marker not found"
    [] loads = "split_error" ->
         "Failed to split document into chunks: expected string or bytes"
    [] OTHER -> ""

\* f"Failed to process document: {str(e)}"
FailedToProcessMsg(detail) ==
  CASE detail = "Failed to load document: EOF marker not found" ->
         "Failed to process document: Failed to load document: EOF marker not found"
    [] detail = "Failed to split document into chunks: expected string or bytes" ->
         "Failed to process document: Failed to split document into chunks: expected string or bytes"
    [] OTHER -> "Failed to process document: "

\* DocumentProcessor.process_document on the saved upload.  loads is the
\* outcome of the loader and the splitter.  Every chunk's metadata gets the
\* name of the file that was processed, which is the temporary file.
process_document(file, loads) ==
  IF file.filename = "None" \/ file.ext \notin {"pdf", "docx", "txt"}
    THEN [raised |-> "ValueError", msg |-> "", filename |-> "None",
          total_chunks |-> 0, chunks |-> <<>>]
  ELSE IF loads # "ok"
    THEN [raised |-> "DocumentProcessingError",
          msg |-> DocumentProcessingMsg(loads), filename |-> "None",
          total_chunks |-> 0, chunks |-> <<>>]
  ELSE [raised |-> "None", msg |-> "", filename |-> TempName(file),
        total_chunks |-> Len(file.chunks),
        chunks |-> [i \in 1..Len(file.chunks) |->
                      [file.chunks[i] EXCEPT !.filename = TempName(file)]]]

\* The largest metadata["page"] of the chunks that have one, 0 if none has.
RECURSIVE MaxPageFrom(_, _)
MaxPageFrom(chunks, max_page) ==
  IF chunks = <<>> THEN max_page
  ELSE MaxPageFrom(Tail(chunks),
                   IF Head(chunks).page # NoPage
                     THEN Max(max_page, Head(chunks).page) ELSE max_page)

\* DocumentService._estimate_page_count
estimate_page_count(chunks) ==
  IF chunks = <<>> THEN 1
  ELSE LET max_page == MaxPageFrom(chunks, 0)
       IN IF max_page > 0 THEN max_page ELSE Max(1, Len(chunks) \div 3)

\* The return statement of _estimate_page_count that is reached: "empty"
\* (no chunks), "metadata" (max_page > 0) or "fallback" (the estimate from
\* the number of chunks).
estimate_page_count_branch(chunks) ==
  IF chunks = <<>> THEN "empty"
  ELSE IF MaxPageFrom(chunks, 0) > 0 THEN "metadata" ELSE "fallback"

cleanup_old_session_skips(state, colls, del_ok) ==
  [state |-> state, colls |-> colls]

cleanup_old_session_keeps_session(state, colls, del_ok) ==
  IF is_active(state)
    THEN LET old_collection == collection_name(state)
             d == IF old_collection # NoName
                    THEN delete_collection(colls, old_collection, del_ok)
                    ELSE [raised |-> "None", colls |-> colls, ret |-> FALSE]
         IN [state |-> state, colls |-> d.colls]
    ELSE [state |-> state, colls |-> colls]

cleanup_old_session_no_delete(state, colls, del_ok) ==
  IF is_active(state)
    THEN [state |-> clear_session(state).state, colls |-> colls]
    ELSE [state |-> state, colls |-> colls]

\* DocumentService._cleanup_old_session: the state and the collections after
\* it.  del_ok is whether Chroma's delete succeeds; a failure is logged only.
cleanup_old_session(state, colls, del_ok) ==
  IF is_active(state)
    THEN LET old_collection == collection_name(state)
             d == IF old_collection # NoName
                    THEN delete_collection(colls, old_collection, del_ok)
                    ELSE [raised |-> "None", colls |-> colls, ret |-> FALSE]
         IN [state |-> clear_session(state).state, colls |-> d.colls]
    ELSE [state |-> state, colls |-> colls]

UnexpectedUploadMsg == "An unexpected error occurred during document processing"

process_upload_outer_passes(exc) == exc

\* The except clauses of process_upload: the four classified errors are
\* re-raised, any other Exception is wrapped in ProcessingError.
process_upload_outer(exc) ==
  IF exc.type \in {"UnsupportedFileTypeError", "FileTooLargeError",
                   "PageLimitExceededError", "ProcessingError"}
    THEN exc
    ELSE ProcessingError(UnexpectedUploadMsg)

\* DocumentService._cleanup_temp_file on the saved path (step 7).
cleanup_temp_file(temp) == IF temp = "exists" THEN "removed" ELSE temp

UploadResponse(filename, file_type, total_chunks) ==
  [filename |-> filename, file_type |-> file_type, total_chunks |-> total_chunks]
NoResponse == UploadResponse("None", "", 0)

process_upload_rest_temp_filename(state, colls, file, uuid, del_ok, loads, chroma_ok) ==
  LET cleaned == cleanup_old_session(state, colls, del_ok)
      processed_doc == process_document(file, loads)
      failed(exc) == [state |-> cleaned.state, colls |-> cleaned.colls,
                      rolled_back |-> NoName, created |-> FALSE,
                      raised |-> exc, response |-> NoResponse]
  IN IF processed_doc.raised = "ValueError"
       THEN failed(UnsupportedFileTypeError(
                     IF file.filename = "None" THEN "tmp" ELSE file.ext))
     ELSE IF processed_doc.raised = "DocumentProcessingError"
       THEN failed(ProcessingError(FailedToProcessMsg(processed_doc.msg)))
     ELSE
       LET page_count == estimate_page_count(processed_doc.chunks)
       IN IF page_count > max_page_limit
            THEN failed(PageLimitExceededError)
          ELSE
            LET original_filename == processed_doc.filename
                created == create_session(original_filename, page_count,
                                          processed_doc.total_chunks, uuid)
                stored == create_collection(cleaned.colls, created.ret,
                                            processed_doc.chunks, chroma_ok)
            IN IF stored.raised # "None"
                 THEN [state |-> clear_session(created.state).state,
                       colls |-> stored.colls,
                       rolled_back |-> clear_session(created.state).ret,
                       created |-> TRUE,
                       raised |-> ProcessingError(
                                    "Failed to create vector store collection"),
                       response |-> NoResponse]
                 ELSE [state |-> created.state, colls |-> stored.colls,
                       rolled_back |-> NoName, created |-> TRUE, raised |-> NoExc,
                       response |-> UploadResponse(original_filename, file.ext,
                                                   processed_doc.total_chunks)]

process_upload_rest_no_rollback(state, colls, file, uuid, del_ok, loads, chroma_ok) ==
  LET cleaned == cleanup_old_session(state, colls, del_ok)
      processed_doc == process_document(file, loads)
      failed(exc) == [state |-> cleaned.state, colls |-> cleaned.colls,
                      rolled_back |-> NoName, created |-> FALSE,
                      raised |-> exc, response |-> NoResponse]
  IN IF processed_doc.raised = "ValueError"
       THEN failed(UnsupportedFileTypeError(
                     IF file.filename = "None" THEN "tmp" ELSE file.ext))
     ELSE IF processed_doc.raised = "DocumentProcessingError"
       THEN failed(ProcessingError(FailedToProcessMsg(processed_doc.msg)))
     ELSE
       LET page_count == estimate_page_count(processed_doc.chunks)
       IN IF page_count > max_page_limit
            THEN failed(PageLimitExceededError)
          ELSE
            LET original_filename ==
                  IF file.filename # "None" THEN file.filename
                  ELSE processed_doc.filename
                created == create_session(original_filename, page_count,
                                          processed_doc.total_chunks, uuid)
                stored == create_collection(cleaned.colls, created.ret,
                                            processed_doc.chunks, chroma_ok)
            IN IF stored.raised # "None"
                 THEN [state |-> created.state,
                       colls |-> stored.colls, rolled_back |-> NoName, created |-> TRUE,
                       raised |-> ProcessingError(
                                    "Failed to create vector store collection"),
                       response |-> NoResponse]
                 ELSE [state |-> created.state, colls |-> stored.colls,
                       rolled_back |-> NoName, created |-> TRUE, raised |-> NoExc,
                       response |-> UploadResponse(original_filename, file.ext,
                                                   processed_doc.total_chunks)]

process_upload_rest_late_page_check(state, colls, file, uuid, del_ok, loads, chroma_ok) ==
  LET cleaned == cleanup_old_session(state, colls, del_ok)
      processed_doc == process_document(file, loads)
      failed(exc) == [state |-> cleaned.state, colls |-> cleaned.colls,
                      rolled_back |-> NoName, created |-> FALSE,
                      raised |-> exc, response |-> NoResponse]
  IN IF processed_doc.raised = "ValueError"
       THEN failed(UnsupportedFileTypeError(
                     IF file.filename = "None" THEN "tmp" ELSE file.ext))
     ELSE IF processed_doc.raised = "DocumentProcessingError"
       THEN failed(ProcessingError(FailedToProcessMsg(processed_doc.msg)))
     ELSE
       LET page_count == estimate_page_count(processed_doc.chunks)
       IN IF page_count > max_page_limit
            THEN [state |-> cleaned.state,
                  colls |-> With(cleaned.colls, uuid, processed_doc.chunks),
                  rolled_back |-> NoName, created |-> TRUE, raised |-> PageLimitExceededError,
                  response |-> NoResponse]
          ELSE
            LET original_filename ==
                  IF file.filename # "None" THEN file.filename
                  ELSE processed_doc.filename
                created == create_session(original_filename, page_count,
                                          processed_doc.total_chunks, uuid)
                stored == create_collection(cleaned.colls, created.ret,
                                            processed_doc.chunks, chroma_ok)
            IN IF stored.raised # "None"
                 THEN [state |-> clear_session(created.state).state,
                       colls |-> stored.colls,
                       rolled_back |-> clear_session(created.state).ret,
                       created |-> TRUE,
                       raised |-> ProcessingError(
                                    "Failed to create vector store collection"),
                       response |-> NoResponse]
                 ELSE [state |-> created.state, colls |-> stored.colls,
                       rolled_back |-> NoName, created |-> TRUE, raised |-> NoExc,
                       response |-> UploadResponse(original_filename, file.ext,
                                                   processed_doc.total_chunks)]

process_upload_rest_delete_blocks(state, colls, file, uuid, del_ok, loads, chroma_ok) ==
  LET cleaned == cleanup_old_session(state, colls, del_ok)
      processed_doc == process_document(file, loads)
      failed(exc) == [state |-> cleaned.state, colls |-> cleaned.colls,
                      rolled_back |-> NoName, created |-> FALSE,
                      raised |-> exc, response |-> NoResponse]
  IN IF /\ is_active(state)
        /\ delete_collection(colls, collection_name(state), del_ok).raised
             # "None"
       THEN [state |-> state, colls |-> colls, rolled_back |-> NoName, created |-> FALSE,
             raised |-> ProcessingError(UnexpectedUploadMsg),
             response |-> NoResponse]
     ELSE IF processed_doc.raised = "ValueError"
       THEN failed(UnsupportedFileTypeError(
                     IF file.filename = "None" THEN "tmp" ELSE file.ext))
     ELSE IF processed_doc.raised = "DocumentProcessingError"
       THEN failed(ProcessingError(FailedToProcessMsg(processed_doc.msg)))
     ELSE
       LET page_count == estimate_page_count(processed_doc.chunks)
       IN IF page_count > max_page_limit
            THEN failed(PageLimitExceededError)
          ELSE
            LET original_filename ==
                  IF file.filename # "None" THEN file.filename
                  ELSE processed_doc.filename
                created == create_session(original_filename, page_count,
                                          processed_doc.total_chunks, uuid)
                stored == create_collection(cleaned.colls, created.ret,
                                            processed_doc.chunks, chroma_ok)
            IN IF stored.raised # "None"
                 THEN [state |-> clear_session(created.state).state,
                       colls |-> stored.colls,
                       rolled_back |-> clear_session(created.state).ret,
                       created |-> TRUE,
                       raised |-> ProcessingError(
                                    "Failed to create vector store collection"),
                       response |-> NoResponse]
                 ELSE [state |-> created.state, colls |-> stored.colls,
                       rolled_back |-> NoName, created |-> TRUE, raised |-> NoExc,
                       response |-> UploadResponse(original_filename, file.ext,
                                                   processed_doc.total_chunks)]

\* process_upload from step 3 to its return (nothing in it suspends): the
\* state and the collections after it, whether create_session ran (a uuid
\* was drawn), the exception raised (NoExc on success) and the response.
process_upload_rest_rollback_clears_prior(state, colls, file, uuid, del_ok, loads, chroma_ok) ==
  LET cleaned == cleanup_old_session(state, colls, del_ok)
      processed_doc == process_document(file, loads)
      failed(exc) == [state |-> cleaned.state, colls |-> cleaned.colls,
                      rolled_back |-> NoName, created |-> FALSE,
                      raised |-> exc, response |-> NoResponse]
  IN IF processed_doc.raised = "ValueError"
       THEN failed(UnsupportedFileTypeError(
                     IF file.filename = "None" THEN "tmp" ELSE file.ext))
     ELSE IF processed_doc.raised = "DocumentProcessingError"
       THEN failed(ProcessingError(FailedToProcessMsg(processed_doc.msg)))
     ELSE
       LET page_count == estimate_page_count(processed_doc.chunks)
       IN IF page_count > max_page_limit
            THEN failed(PageLimitExceededError)
          ELSE
            LET original_filename ==
                  IF file.filename # "None" THEN file.filename
                  ELSE processed_doc.filename
                created == create_session(original_filename, page_count,
                                          processed_doc.total_chunks, uuid)
                stored == create_collection(colls, uuid,
                                            processed_doc.chunks, chroma_ok)
            IN IF stored.raised # "None"
                 THEN [state |-> clear_session(state).state,
                       colls |-> stored.colls,
                       rolled_back |-> clear_session(state).ret,
                       created |-> TRUE,
                       raised |-> ProcessingError(
                                    "Failed to create vector store collection"),
                       response |-> NoResponse]
                 ELSE [state |-> created.state,
                       colls |-> With(cleaned.colls, uuid, processed_doc.chunks),
                       rolled_back |-> NoName,
                       created |-> TRUE, raised |-> NoExc,
                       response |-> UploadResponse(original_filename, file.ext,
                                                   processed_doc.total_chunks)]

process_upload_rest(state, colls, file, uuid, del_ok, loads, chroma_ok) ==
  LET cleaned == cleanup_old_session(state, colls, del_ok)
      processed_doc == process_document(file, loads)
      failed(exc) == [state |-> cleaned.state, colls |-> cleaned.colls,
                      rolled_back |-> NoName, created |-> FALSE,
                      raised |-> exc, response |-> NoResponse]
  IN IF processed_doc.raised = "ValueError"
       THEN failed(UnsupportedFileTypeError(
                     IF file.filename = "None" THEN "tmp" ELSE file.ext))
     ELSE IF processed_doc.raised = "DocumentProcessingError"
       THEN failed(ProcessingError(FailedToProcessMsg(processed_doc.msg)))
     ELSE
       LET page_count == estimate_page_count(processed_doc.chunks)
       IN IF page_count > max_page_limit
            THEN failed(PageLimitExceededError)
          ELSE
            LET original_filename ==
                  IF file.filename # "None" THEN file.filename
                  ELSE processed_doc.filename
                created == create_session(original_filename, page_count,
                                          processed_doc.total_chunks, uuid)
                stored == create_collection(cleaned.colls, created.ret,
                                            processed_doc.chunks, chroma_ok)
            IN IF stored.raised # "None"
                 THEN [state |-> clear_session(created.state).state,
                       colls |-> stored.colls,
                       rolled_back |-> clear_session(created.state).ret,
                       created |-> TRUE,
                       raised |-> ProcessingError(
                                    "Failed to create vector store collection"),
                       response |-> NoResponse]
                 ELSE [state |-> created.state, colls |-> stored.colls,
                       rolled_back |-> NoName, created |-> TRUE, raised |-> NoExc,
                       response |-> UploadResponse(original_filename, file.ext,
                                                   processed_doc.total_chunks)]

\* The except clauses of the route upload_document (POST /upload): the
\* HTTPException raised for an exception of process_upload; its detail is
\* str(e), the message of the exception.
upload_document_on_raise(exc) ==
  CASE exc.type = "UnsupportedFileTypeError" -> HTTPException(400, exc.msg)
    [] exc.type = "FileTooLargeError" -> HTTPException(413, exc.msg)
    [] exc.type = "PageLimitExceededError" -> HTTPException(400, exc.msg)
    [] exc.type = "ProcessingError" -> HTTPException(422, exc.msg)
    [] OTHER -> exc

(***************************************************************************)
(* State                                                                   *)
(***************************************************************************)
\* An upload request: pc is "idle" (no request), "reading" (suspended in
\* _save_temp_file's await file.read()) or "returned"; raised and response
\* are what process_upload raised or returned.
\*   temp           the temporary file of the upload: "none" (not created),
\*                  "exists" or "removed"
\*   delete_raised, create_raised, processed
\*                  records of the run: whether the store's delete_collection
\*                  and create_collection raised in this upload, and whether
\*                  the document was loaded, chunked and within the page limit
\*   load_error     the text of the DocumentProcessingError of this upload,
\*                  "" if there was none
\*   name           the collection name create_session drew in this upload,
\*                  NoName if it was not called
\*   rolled_back    the collection name of the session that the clear_session
\*                  of this upload's rollback cleared, NoName if there was no
\*                  rollback
IdleUpload ==
  [pc |-> "idle", file |-> NoFile, raised |-> NoExc, response |-> NoResponse,
   temp |-> "none", delete_raised |-> FALSE, create_raised |-> FALSE,
   processed |-> FALSE, load_error |-> "", name |-> NoName,
   rolled_back |-> NoName]

health_check_swapped(state) ==
  [status |-> "healthy", version |-> "0.1.0",
   session_active |-> state.is_active,
   document_loaded |-> state.is_active,
   filename |-> state.filename,
   page_count |-> IF state.is_active THEN <<state.chunk_count>> ELSE <<>>,
   chunk_count |-> IF state.is_active THEN <<state.page_count>> ELSE <<>>]

\* HealthResponse(...) as health_check builds it from the session state.
health_check(state) ==
  [status |-> "healthy", version |-> "0.1.0",
   session_active |-> state.is_active,
   document_loaded |-> state.is_active,
   filename |-> state.filename,
   page_count |-> IF state.is_active THEN <<state.page_count>> ELSE <<>>,
   chunk_count |-> IF state.is_active THEN <<state.chunk_count>> ELSE <<>>]

\* No status call was made yet.
NoHealth == [response |-> <<>>, calls |-> 0]

\* No call of _estimate_page_count is under way.
NoEstimate == [chunks |-> <<>>, page_count |-> 0, done |-> FALSE, branch |-> "none"]

\* A caller of the SessionManager that made no call yet.
NoCall ==
  [op |-> "none", args |-> <<>>, ret |-> NoName, before |-> SessionState,
   names |-> <<>>]

\* A query request.  pc is "idle", "await_llm" (query_stream is suspended in
\* generate_stream), "sent_token" / "sent_sources" / "sent_done" (suspended
\* at the yield of that event), "closed" (the stream ended) or "cancelled".
\*   events         the events event_generator yielded to the caller
\*   yielded        the responses query_stream yielded
\*   raised         the exception query_stream raised, NoExc if none
\*   chunks, prompt context.chunks and the prompt given to generate_stream
\*   store_queries, llm_calls, requested
\*                  calls of the store's query, calls of generate_stream,
\*                  and fragments requested from generate_stream
\*   store_raised, store_result, llm_raw, produced
\*                  records of the run: what the store's query raised and
\*                  returned, the kind of astream's last decisive step, and
\*                  the fragments generate_stream produced
\*   top_k, store_top_k
\*                  the top_k of the request (NoTopK if it has none) and the
\*                  top_k the store was queried with (0 if it was not)
\*   collected      what query_document_sync, which consumes the same
\*                  generator without suspending at its yields, returns or
\*                  raises for this run of query_stream once it has ended
IdleQuery ==
  [pc |-> "idle", question |-> "", events |-> <<>>, yielded |-> <<>>,
   raised |-> NoExc, chunks |-> <<>>, prompt |-> <<>>, store_queries |-> 0,
   llm_calls |-> 0, requested |-> 0, store_raised |-> "None",
   store_result |-> <<>>, llm_raw |-> "none", produced |-> <<>>,
   top_k |-> NoTopK, store_top_k |-> 0, collected |-> NoCollected]

\* The record of a query whose run of query_stream has ended, with what
\* query_document_sync makes of the run.
Collect(record) ==
  IF record.pc = "closed"
    THEN [record EXCEPT !.collected = query_document_sync(record.yielded,
                                                          record.raised)]
    ELSE record

Init ==
  /\ session = SessionState
  /\ collections = <<>>
  /\ nextUuid = 1
  /\ upload = [u \in Uploaders |-> IdleUpload]
  /\ query = [q \in Queries |-> IdleQuery]
  /\ client = NoCall
  /\ health = NoHealth
  /\ estimate = NoEstimate

(***************************************************************************)
(* Upload actions                                                          *)
(***************************************************************************)
Reading == {u \in Uploaders : upload[u].pc = "reading"}

\* POST /documents arrives: process_upload validates the file and, if it is
\* valid, starts saving it (steps 1 and 2, up to the await of file.read()):
\* NamedTemporaryFile(delete=False) has created the temporary file.
UploadBegin(u, file) ==
  /\ upload[u].pc = "idle"
  /\ nextUuid + Cardinality(Reading) <= MaxSessions
  /\ LET exc == validate_file(file)
     IN upload' = [upload EXCEPT ![u] =
          IF exc # NoExc
            THEN [IdleUpload EXCEPT !.pc = "returned", !.file = file,
                                    !.raised = exc]
            ELSE [IdleUpload EXCEPT !.pc = "reading", !.file = file,
                                    !.temp = "exists"]]
  /\ UNCHANGED <<session, collections, nextUuid, query, client, health, estimate>>

\* file.read() completes: process_upload runs steps 3 to 8 and returns.
UploadProcess(u, del_ok, loads, chroma_ok) ==
  /\ upload[u].pc = "reading"
  /\ LET r == process_upload_rest(session, collections, upload[u].file,
                                  nextUuid, del_ok, loads, chroma_ok)
         old_collection == collection_name(session)
         deleted == delete_collection(collections, old_collection, del_ok)
         after_delete == IF is_active(session) /\ old_collection # NoName
                           THEN deleted.colls ELSE collections
         processed_doc == process_document(upload[u].file, loads)
     IN /\ session' = r.state
        /\ collections' = r.colls
        /\ nextUuid' = IF r.created THEN nextUuid + 1 ELSE nextUuid
        /\ upload' = [upload EXCEPT ![u] =
             [pc |-> "returned", file |-> upload[u].file,
              raised |-> IF r.raised = NoExc THEN NoExc
                         ELSE process_upload_outer(r.raised),
              response |-> r.response,
              temp |-> cleanup_temp_file(upload[u].temp),
              load_error |-> processed_doc.msg,
              name |-> IF r.created THEN nextUuid ELSE NoName,
              rolled_back |-> r.rolled_back,
              processed |-> /\ processed_doc.raised = "None"
                            /\ estimate_page_count(processed_doc.chunks)
                                 <= max_page_limit,
              delete_raised |-> /\ is_active(session)
                                /\ old_collection # NoName
                                /\ deleted.raised # "None",
              create_raised |-> /\ r.created
                                /\ create_collection(after_delete, nextUuid,
                                      upload[u].file.chunks, chroma_ok).raised
                                    # "None"]]
  /\ UNCHANGED <<query, client, health, estimate>>

\* file.read() or tmp.write() raises in _save_temp_file: the exception leaves
\* process_upload through "except Exception"; temp_file_path is still None,
\* so the finally clause removes nothing.
UploadReadFails(u) ==
  /\ upload[u].pc = "reading"
  /\ upload' = [upload EXCEPT ![u] =
       [@ EXCEPT !.pc = "returned",
                 !.raised = process_upload_outer(Exc("OSError", "read failed"))]]
  /\ UNCHANGED <<session, collections, nextUuid, query, client, health, estimate>>

\* The response was delivered; the slot can take the next request.
UploadReset(u) ==
  /\ upload[u].pc = "returned"
  /\ upload' = [upload EXCEPT ![u] = IdleUpload]
  /\ UNCHANGED <<session, collections, nextUuid, query, client, health, estimate>>

(***************************************************************************)
(* Query actions                                                           *)
(***************************************************************************)
YieldFirst(stream, events) == events \o stream

\* event_generator yields events: they follow what the caller already has.
Yield(stream, events) == stream \o events

\* What the first stretch of a query does to the query's record:
\* event_generator starts query_stream, which runs steps 1 to 3 and calls
\* generate_stream (the first suspension), or raises.
QueryStartRecord(q, request, rank) ==
  /\ query[q].pc = "idle"
  /\ LET question == request.query
         r == query_stream_start(session, collections, question, rank)
         asked == is_active(session) /\ collection_name(session) # NoName
         stored == vs_query(collections, collection_name(session), question,
                            top_k_chunks, rank)
     IN query' = [query EXCEPT ![q] = Collect(
          IF r.raised # NoExc
            THEN [IdleQuery EXCEPT
                    !.pc = "closed", !.question = question,
                    !.top_k = request.top_k,
                    !.raised = r.raised,
                    !.events = Yield(<<>>, event_generator_on_raise(r.raised)),
                    !.store_queries = r.store_queries,
                    !.store_top_k = r.store_top_k,
                    !.store_raised = IF asked THEN stored.raised ELSE "None",
                    !.store_result = IF asked THEN stored.ret ELSE <<>>]
            ELSE [IdleQuery EXCEPT
                    !.pc = "await_llm", !.question = question,
                    !.top_k = request.top_k,
                    !.chunks = r.chunks, !.prompt = r.prompt,
                    !.store_queries = r.store_queries,
                    !.store_top_k = r.store_top_k,
                    !.llm_calls = 1, !.requested = 1,
                    !.store_raised = IF asked THEN stored.raised ELSE "None",
                    !.store_result = IF asked THEN stored.ret ELSE <<>>])]

QueryStartClearsOnError(q, request, rank) ==
  /\ QueryStartRecord(q, request, rank)
  /\ session' = IF query'[q].raised # NoExc /\ is_active(session)
                  THEN clear_session(session).state ELSE session
  /\ UNCHANGED <<collections, nextUuid, upload, client, health, estimate>>

\* POST /query: the first stretch of the query; it only reads the session
\* manager and the store.  The route hands request.query, and nothing else
\* of the request, to query_stream.
QueryStart(q, request, rank) ==
  /\ QueryStartRecord(q, request, rank)
  /\ UNCHANGED <<session, collections, nextUuid, upload, client, health, estimate>>

\* generate_stream answers the pending request: it yields a fragment, ends
\* or raises; query_stream and event_generator run up to their next yield,
\* or the stream ends with an error event.
LLMNext(q, raws) ==
  /\ query[q].pc = "await_llm"
  /\ LET out == generate_stream_next(raws)
         r == query_stream_on_llm(out, query[q].chunks)
         produced == IF out.kind = "yield"
                       THEN Append(query[q].produced,
                                   [content |-> out.content, is_str |-> out.is_str])
                       ELSE query[q].produced
     IN /\ out.kind = "yield" => Len(query[q].produced) < MaxFragments
        /\ query' = [query EXCEPT ![q] = Collect(
             IF r.raised # NoExc
               THEN [@ EXCEPT !.pc = "closed", !.raised = r.raised,
                              !.produced = produced,
                              !.llm_raw = raws[Len(raws)].kind,
                              !.events = Yield(@, event_generator_on_raise(r.raised))]
               ELSE LET ev == event_generator_on_response(r.response[1])
                    IN [@ EXCEPT
                          !.pc = IF ev.return THEN "closed"
                                 ELSE IF out.kind = "yield" THEN "sent_token"
                                 ELSE "sent_sources",
                          !.produced = produced,
                          !.llm_raw = raws[Len(raws)].kind,
                          !.yielded = Append(@, r.response[1]),
                          !.events = Yield(@, ev.events)])]
  /\ UNCHANGED <<session, collections, nextUuid, upload, client, health, estimate>>

\* The caller takes the next event: query_stream resumes after its yield.
\* After a token it requests the next fragment; after the sources it yields
\* the done response; after the done response it returns.
CallerPull(q) ==
  /\ query[q].pc \in {"sent_token", "sent_sources", "sent_done"}
  /\ query' = [query EXCEPT ![q] = Collect(
       CASE @.pc = "sent_token" ->
              [@ EXCEPT !.pc = "await_llm", !.requested = @ + 1]
         [] @.pc = "sent_sources" ->
              LET ev == event_generator_on_response(DoneResponse)
              IN [@ EXCEPT !.pc = IF ev.return THEN "closed" ELSE "sent_done",
                           !.yielded = Append(@, DoneResponse),
                           !.events = Yield(@, ev.events)]
         [] OTHER -> [@ EXCEPT !.pc = "closed"])]
  /\ UNCHANGED <<session, collections, nextUuid, upload, client, health, estimate>>

Cancel_reports_error(q) ==
  /\ query[q].pc \in {"await_llm", "sent_token", "sent_sources", "sent_done"}
  /\ query' = [query EXCEPT ![q].pc = "cancelled",
                            ![q].events = Yield(@, <<ErrorEvent(UnexpectedRouteMsg)>>)]
  /\ UNCHANGED <<session, collections, nextUuid, upload, client, health, estimate>>

\* The caller disconnects: the suspended generators are closed
\* (GeneratorExit / CancelledError pass every "except Exception").
Cancel(q) ==
  /\ query[q].pc \in {"await_llm", "sent_token", "sent_sources", "sent_done"}
  /\ query' = [query EXCEPT ![q].pc = "cancelled"]
  /\ UNCHANGED <<session, collections, nextUuid, upload, client, health, estimate>>

\* The slot takes the next query request.
QueryReset(q) ==
  /\ query[q].pc \in {"closed", "cancelled"}
  /\ query' = [query EXCEPT ![q] = IdleQuery]
  /\ UNCHANGED <<session, collections, nextUuid, upload, client, health, estimate>>

(***************************************************************************)
(* Specification: one upload request and one query request at a time, in   *)
(* any interleaving of their stretches.                                    *)
(***************************************************************************)
SoloUploaders == {"u1"}

Next ==
  \/ \E u \in SoloUploaders, file \in Files : UploadBegin(u, file)
  \/ \E u \in SoloUploaders, del_ok, chroma_ok \in BOOLEAN,
         loads \in LoadOutcomes :
       UploadProcess(u, del_ok, loads, chroma_ok)
  \/ \E u \in SoloUploaders : UploadReadFails(u)
  \/ \E u \in SoloUploaders : UploadReset(u)
  \/ \E q \in Queries, request \in PlainRequests, rank \in Rankings :
       QueryStart(q, request, rank)
  \/ \E q \in Queries, raws \in RawBatches : LLMNext(q, raws)
  \/ \E q \in Queries : CallerPull(q)
  \/ \E q \in Queries : Cancel(q)
  \/ \E q \in Queries : QueryReset(q)

Spec == Init /\ [][Next]_vars

(***************************************************************************)
(* The same, with query requests that carry a top_k as well.               *)
(***************************************************************************)
NextTopK ==
  \/ Next
  \/ \E q \in Queries, request \in QueryRequests, rank \in Rankings :
       QueryStart(q, request, rank)

SpecTopK == Init /\ [][NextTopK]_vars

(***************************************************************************)
(* Specification of the registry alone: any sequence of create_session and *)
(* clear_session calls on the SessionManager, with any arguments.          *)
(***************************************************************************)
RegFilenames == {"report.pdf", "notes.txt", "memo.docx"}
RegCounts == 0..4

\* A call of create_session by the caller: the manager's state is replaced and
\* the caller keeps what was returned.
RegistryCreate(filename, page_count, chunk_count) ==
  /\ nextUuid <= MaxSessions
  /\ LET r == create_session(filename, page_count, chunk_count, nextUuid)
     IN /\ session' = r.state
        /\ client' = [op |-> "create",
                      args |-> <<filename, page_count, chunk_count>>,
                      ret |-> r.ret, before |-> session,
                      names |-> Append(client.names, r.ret)]
  /\ nextUuid' = nextUuid + 1
  /\ UNCHANGED <<collections, upload, query, health, estimate>>

\* A call of clear_session by the caller.
RegistryClear ==
  /\ LET r == clear_session(session)
     IN /\ session' = r.state
        /\ client' = [client EXCEPT !.op = "clear", !.args = <<>>,
                                    !.ret = r.ret, !.before = session]
  /\ UNCHANGED <<collections, nextUuid, upload, query, health, estimate>>

NextRegistry ==
  \/ \E filename \in RegFilenames, page_count, chunk_count \in RegCounts :
       RegistryCreate(filename, page_count, chunk_count)
  \/ RegistryClear

SpecRegistry == Init /\ [][NextRegistry]_vars

(***************************************************************************)
(* Specification of the store alone: any sequence of create_collection and *)
(* delete_collection calls on the VectorStoreService, with any arguments.  *)
(***************************************************************************)
StoreNames == 1..MaxSessions
StoreDocuments == {<<>>, <<Doc("a0", 0)>>, <<Doc("b0", NoPage), Doc("b1", NoPage)>>}

\* A call of create_collection by the caller, who keeps what it raised or
\* returned and the map of the store before the call.
StoreCreate(name, documents, chroma_ok) ==
  /\ LET r == create_collection(collections, name, documents, chroma_ok)
     IN /\ collections' = r.colls
        /\ client' = [op |-> "create_collection", args |-> <<name, documents>>,
                      ret |-> r.ret, raised |-> r.raised, before |-> collections]
  /\ UNCHANGED <<session, nextUuid, upload, query, health, estimate>>

\* A call of delete_collection by the caller.
StoreDelete(name, chroma_ok) ==
  /\ LET r == delete_collection(collections, name, chroma_ok)
     IN /\ collections' = r.colls
        /\ client' = [op |-> "delete_collection", args |-> <<name>>,
                      ret |-> r.ret, raised |-> r.raised, before |-> collections]
  /\ UNCHANGED <<session, nextUuid, upload, query, health, estimate>>

NextStore ==
  \/ \E name \in StoreNames, documents \in StoreDocuments, chroma_ok \in BOOLEAN :
       StoreCreate(name, documents, chroma_ok)
  \/ \E name \in StoreNames, chroma_ok \in BOOLEAN : StoreDelete(name, chroma_ok)

SpecStore == Init /\ [][NextStore]_vars

(***************************************************************************)
(* Specification of the uploads alone: two upload requests at a time, in   *)
(* any interleaving of their stretches, and no query.                      *)
(***************************************************************************)
NextUploads ==
  \/ \E u \in Uploaders, file \in Files : UploadBegin(u, file)
  \/ \E u \in Uploaders, del_ok, chroma_ok \in BOOLEAN,
         loads \in LoadOutcomes :
       UploadProcess(u, del_ok, loads, chroma_ok)
  \/ \E u \in Uploaders : UploadReadFails(u)
  \/ \E u \in Uploaders : UploadReset(u)

SpecUploads == Init /\ [][NextUploads]_vars

(***************************************************************************)
(* Specification: one upload request at a time and the status calls        *)
(* (GET /health), in any interleaving.                                     *)
(***************************************************************************)
MaxStatusCalls == 2

\* GET /health: the route reads a copy of the session state and builds the
\* response from it; it changes nothing.
HealthCheck ==
  /\ health.calls < MaxStatusCalls
  /\ health' = [response |-> <<health_check(get_state(session))>>,
                calls |-> health.calls + 1]
  /\ UNCHANGED <<session, collections, nextUuid, upload, query, client, estimate>>

NextStatus ==
  \/ \E u \in SoloUploaders, file \in Files : UploadBegin(u, file)
  \/ \E u \in SoloUploaders, del_ok, chroma_ok \in BOOLEAN,
         loads \in LoadOutcomes :
       UploadProcess(u, del_ok, loads, chroma_ok)
  \/ \E u \in SoloUploaders : UploadReadFails(u)
  \/ \E u \in SoloUploaders : UploadReset(u)
  \/ HealthCheck

SpecStatus == Init /\ [][NextStatus]_vars

(***************************************************************************)
(* Specification: _estimate_page_count applied to a list of chunks.        *)
(***************************************************************************)
MaxEstimateChunks == 6
MaxPlainChunks == 12

\* The metadata["page"] values of the chunks handed to the estimation
\* (NoPage: the chunk has no "page" in its metadata).
EstimatePages == {NoPage, 0, 1, 2, 3}

\* The chunk lists handed to the estimation: every list of up to
\* MaxEstimateChunks chunks, and the lists of up to MaxPlainChunks chunks
\* without page metadata.
EstimateInputs ==
  UNION {[1..n -> {Doc("c", page) : page \in EstimatePages}] :
           n \in 0..MaxEstimateChunks}
    \cup {[i \in 1..n |-> Doc("c", NoPage)] : n \in 0..MaxPlainChunks}

InitEstimate ==
  /\ session = SessionState
  /\ collections = <<>>
  /\ nextUuid = 1
  /\ upload = [u \in Uploaders |-> IdleUpload]
  /\ query = [q \in Queries |-> IdleQuery]
  /\ client = NoCall
  /\ health = NoHealth
  /\ estimate \in {[chunks |-> chunks, page_count |-> 0, done |-> FALSE,
                      branch |-> "none"] : chunks \in EstimateInputs}

\* self._estimate_page_count(chunks) returns.
Estimate ==
  /\ ~estimate.done
  /\ estimate' = [estimate EXCEPT !.page_count = estimate_page_count(estimate.chunks),
                                  !.branch = estimate_page_count_branch(estimate.chunks),
                                  !.done = TRUE]
  /\ UNCHANGED <<session, collections, nextUuid, upload, query, client, health>>

NextEstimate == Estimate

SpecEstimate == InitEstimate /\ [][NextEstimate]_vars

(***************************************************************************)
(* The uploads in which every delete of an old collection succeeds.        *)
(***************************************************************************)
NextUploadsDeleteOk ==
  \/ \E u \in Uploaders, file \in Files : UploadBegin(u, file)
  \/ \E u \in Uploaders, chroma_ok \in BOOLEAN, loads \in LoadOutcomes :
       UploadProcess(u, TRUE, loads, chroma_ok)
  \/ \E u \in Uploaders : UploadReadFails(u)
  \/ \E u \in Uploaders : UploadReset(u)

SpecUploadsDeleteOk == Init /\ [][NextUploadsDeleteOk]_vars

(***************************************************************************)
(* Properties of the query stream                                          *)
(***************************************************************************)
IsTerminal(e) == e.event \in {"done", "error"}
EventsOf(q, kind) == {i \in DOMAIN query[q].events : query[q].events[i].event = kind}
\* The stream of q ended by itself (it was not cancelled by the caller).
Ended(q) == query[q].pc = "closed"
LastEvent(q) == query[q].events[Len(query[q].events)]

\* C1: in every query stream a terminal event (done or error) is the last
\* event the caller has, so there is at most one and nothing follows it; and
\* a stream that ended, whatever the outcome, has exactly one terminal event.
C1_OneTerminalEvent ==
  \A q \in Queries :
    /\ \A i \in DOMAIN query[q].events :
         IsTerminal(query[q].events[i]) => i = Len(query[q].events)
    /\ Ended(q) =>
         /\ query[q].events # <<>>
         /\ IsTerminal(LastEvent(q))
         /\ Cardinality(EventsOf(q, "done") \cup EventsOf(q, "error")) = 1

\* A stream that ended with an error event after a token event.
C1_Witness ==
  \E q \in Queries :
    /\ Ended(q)
    /\ EventsOf(q, "token") # {}
    /\ LastEvent(q).event = "error"

\* C2: a stream that holds a done event is token events, then one sources
\* event, then the done event, and nothing else; and every stream that ended
\* without an exception of query_stream has that shape.
C2_SuccessShape ==
  \A q \in Queries :
    LET ev == query[q].events
        n == Len(ev)
    IN /\ (EventsOf(q, "done") # {} \/ (Ended(q) /\ query[q].raised = NoExc)) =>
            /\ n >= 2
            /\ ev[n].event = "done"
            /\ ev[n - 1].event = "sources"
            /\ \A i \in 1..(n - 2) : ev[i].event = "token"
       /\ query[q].pc = "sent_done" => EventsOf(q, "done") # {}

\* A stream that ended with two token events, the sources and the done event.
C2_Witness ==
  \E q \in Queries :
    /\ Ended(q)
    /\ Len(query[q].events) = 4
    /\ LastEvent(q).event = "done"

\* C3: when the generation client fails after it produced K fragments, the
\* stream is the K token events of those fragments followed by one error
\* event, with no sources and no done event, and the stream has ended.
C3_GenerationFailure ==
  \A q \in Queries :
    query[q].llm_raw = "error" =>
      LET ev == query[q].events
          K == Len(query[q].produced)
      IN /\ Ended(q)
         /\ Len(ev) = K + 1
         /\ \A i \in 1..K : ev[i] = TokenEvent(query[q].produced[i].content)
         /\ ev[K + 1].event = "error"
         /\ EventsOf(q, "sources") = {}
         /\ EventsOf(q, "done") = {}

\* The generation client failed after one fragment.
C3_Witness ==
  \E q \in Queries :
    /\ query[q].llm_raw = "error"
    /\ Len(query[q].produced) = 1
    /\ Len(query[q].events) = 2

\* C4: a query that starts while no session is active ends at once with the
\* single event error "No document loaded...", and queries neither the store
\* nor the generation client.
C4_NoActiveSession ==
  [][\A q \in Queries :
       (query[q].pc = "idle" /\ query'[q].pc # "idle" /\ ~session.is_active) =>
         /\ query'[q].pc = "closed"
         /\ query'[q].events = <<ErrorEvent(NoActiveSessionError.msg)>>
         /\ query'[q].store_queries = 0
         /\ query'[q].llm_calls = 0
         /\ query'[q].requested = 0]_vars

\* A query answered "no document loaded" after a session had been created and
\* cleared again.
C4_Witness ==
  \E q \in Queries :
    /\ nextUuid > 1
    /\ ~session.is_active
    /\ Ended(q)
    /\ query[q].events = <<ErrorEvent(NoActiveSessionError.msg)>>
    /\ query[q].store_queries = 0

\* C5 as stated: query_stream never raises; every failure reaches its
\* consumer as a response whose error field is set.
C5_NeverRaises ==
  \A q \in Queries :
    /\ query[q].raised = NoExc
    /\ (Ended(q) /\ LastEvent(q).event = "error") =>
         \E i \in DOMAIN query[q].yielded : Truthy(query[q].yielded[i].error)

\* C5 amended: query_stream delivers every failure by raising, and only
\* NoActiveSessionError (no session) or QueryError (retrieval failure,
\* generation failure, any other exception) leaves it; it never yields a
\* response whose error field is set; event_generator turns the raised
\* exception into the last event of the caller's stream, error with str(e).
C5_RaisesClassified ==
  \A q \in Queries :
    LET r == query[q]
    IN /\ r.raised.type \in {"None", "NoActiveSessionError", "QueryError"}
       /\ \A i \in DOMAIN r.yielded : r.yielded[i].error = <<>>
       /\ r.raised # NoExc => Ended(q) /\ LastEvent(q) = ErrorEvent(r.raised.msg)
       /\ (r.pc # "idle" /\ r.store_queries = 0) => r.raised = NoActiveSessionError
       /\ r.store_raised # "None" => r.raised = QueryError(RetrievalFailedMsg)
       /\ r.llm_raw = "error" => r.raised = QueryError(GenerationFailedMsg)
       /\ (r.produced # <<>> /\ ~r.produced[Len(r.produced)].is_str) =>
            r.raised = QueryError(UnexpectedQueryMsg)

\* query_stream raised for an exception that is neither of its two kinds: a
\* fragment that is no str, after one token.
C5_Witness ==
  \E q \in Queries :
    /\ query[q].raised = QueryError(UnexpectedQueryMsg)
    /\ Len(query[q].produced) = 2
    /\ LastEvent(q) = ErrorEvent(UnexpectedQueryMsg)

C7_SourcesFromOneRetrieval ==
  \A q \in Queries :
    LET r == query[q]
        got == r.store_result
    IN /\ r.store_queries <= 1
       /\ (r.pc # "idle" /\ r.raised # NoActiveSessionError) => r.store_queries = 1
       /\ \A e \in EventsOf(q, "sources") :
            LET src == r.events[e].sources
            IN /\ Len(src) = Len(got)
               /\ \A j \in 1..Len(got) :
                    /\ src[j].content = got[j].content
                    /\ src[j].page_number = got[j].page_number
                    /\ src[j].chunk_index = got[j].chunk_index
                    /\ src[j].relevance_score = got[j].relevance_score
                    /\ src[j].filename = got[j].source
       /\ r.prompt # <<>> =>
            LET ctx == r.prompt[1].context
            IN /\ Len(ctx) = Len(got)
               /\ \A j \in 1..Len(got) :
                    /\ ctx[j].chunk = j
                    /\ ctx[j].content = got[j].content
                    /\ ctx[j].page = got[j].page_number
                    /\ ctx[j].score = got[j].relevance_score

\* A sources event of two chunks that the store returned in another order
\* than the document's.
C7_Witness ==
  \E q \in Queries :
    /\ EventsOf(q, "sources") # {}
    /\ Len(query[q].store_result) = 2
    /\ query[q].store_result[1].content = "r1"
    /\ query[q].store_result[2].content = "r0"

\* C8: the i-th event of a stream's token events is the token of the i-th
\* fragment the generation client produced; a produced fragment is in the
\* stream at once (only a fragment that failed validation is not); and the
\* fragment n+1 is requested only when n token events are in the stream.
C8_TokensInGenerationOrder ==
  \A q \in Queries :
    LET r == query[q]
        T == Cardinality(EventsOf(q, "token"))
    IN /\ T <= Len(r.produced)
       /\ \A i \in 1..T : r.events[i] = TokenEvent(r.produced[i].content)
       /\ Len(r.produced) <= T + 1
       /\ Len(r.produced) = T + 1 => ~r.produced[T + 1].is_str
       /\ Len(r.produced) <= r.requested
       /\ r.requested <= T + 1

\* Two different fragments were emitted and a third was requested.
C8_Witness ==
  \E q \in Queries :
    /\ Cardinality(EventsOf(q, "token")) = 2
    /\ query[q].produced[1] # query[q].produced[2]
    /\ query[q].requested = 3

\* C9: a step of a query (start, fragment, pull, cancellation, end) leaves
\* the session state and the store's collections as they are; they change
\* only in the step in which an upload runs from its file read to its return.
C9_QueryOnlyReads ==
  [][/\ query' # query => (session' = session /\ collections' = collections)
     /\ (session' # session \/ collections' # collections) =>
          \E u \in Uploaders :
            upload[u].pc = "reading" /\ upload'[u].pc = "returned"]_vars

\* A query was cancelled after a token event: the session is still active
\* and its collection still exists.
C9_Witness ==
  \E q \in Queries :
    /\ query[q].pc = "cancelled"
    /\ EventsOf(q, "token") # {}
    /\ session.is_active
    /\ session.collection_name \in DOMAIN collections

\* C10: in every state of the registry, is_active holds exactly when
\* collection_name is set.
C10_ActiveIffCollection ==
  session.is_active <=> session.collection_name # NoName

\* The registry was cleared after a second session had replaced the first.
C10_Witness ==
  /\ ~session.is_active
  /\ session.collection_name = NoName
  /\ nextUuid = 3

(***************************************************************************)
(* Properties of the registry (SpecRegistry)                               *)
(***************************************************************************)
\* C11: the registry starts empty (inactive, no collection name); after a
\* clear_session call the state is the inactive default and the call returned
\* the name that was active right before it, or None (NoName) when no session
\* was active, and in that case the state is what it was before the call.
C11_ClearReturnsPrior ==
  /\ client.op = "none" =>
        /\ ~is_active(session)
        /\ collection_name(session) = NoName
        /\ get_state(session) = SessionState
  /\ client.op = "clear" =>
        /\ get_state(session) = SessionState
        /\ client.before.is_active =>
              /\ client.ret = client.before.collection_name
              /\ client.ret # NoName
        /\ ~client.before.is_active =>
              /\ client.ret = NoName
              /\ get_state(session) = client.before

\* clear_session was called on an active session and returned its name.
C11_Witness ==
  /\ client.op = "clear"
  /\ client.before.is_active
  /\ client.ret = 1
  /\ ~is_active(session)

\* C12: after create_session(filename, page_count, chunk_count) returned a
\* name, get_state shows an active session with exactly that filename, page
\* count and chunk count and with the returned name as collection_name; no
\* field holds the value the replaced session had, unless the call set it.
C12_CreateReplacesAll ==
  client.op = "create" =>
    LET state == get_state(session)
    IN /\ state.is_active
       /\ state.filename = client.args[1]
       /\ state.page_count = client.args[2]
       /\ state.chunk_count = client.args[3]
       /\ state.collection_name = client.ret
       /\ is_active(session)
       /\ collection_name(session) = client.ret
       /\ state.collection_name # client.before.collection_name
       /\ state.created_at # client.before.created_at

\* create_session replaced an active session whose fields all differ from
\* the arguments of the call.
C12_Witness ==
  /\ client.op = "create"
  /\ client.before.is_active
  /\ client.before.filename # client.args[1]
  /\ client.before.page_count # client.args[2]
  /\ client.before.chunk_count # client.args[3]
  /\ client.args[2] # client.args[3]
  /\ session.filename = client.args[1]

C14_PriorNameReturned ==
  (client.op = "create" /\ client.before.is_active) =>
    client.ret = client.before.collection_name

(***************************************************************************)
(* Properties of the uploads                                               *)
(***************************************************************************)
\* The step in which the upload of u runs steps 3 to 8 and returns success.
UploadSucceeds(u) ==
  /\ upload[u].pc = "reading"
  /\ upload'[u].pc = "returned"
  /\ upload'[u].raised = NoExc

\* C15: whenever an upload returns success, whatever uploads came before it,
\* the session is active and its filename and chunk count are those of the
\* document of that upload.
C15_LastUploadWins ==
  [][\A u \in Uploaders :
       UploadSucceeds(u) =>
         /\ session'.is_active
         /\ session'.filename = upload[u].file.filename
         /\ session'.chunk_count = Len(upload[u].file.chunks)
         /\ upload'[u].response.filename = upload[u].file.filename
         /\ upload'[u].response.total_chunks = Len(upload[u].file.chunks)]_vars

\* Two uploads succeeded, report.pdf (2 chunks) and then notes.txt (1 chunk).
C15_Witness ==
  /\ upload["u1"].pc = "returned" /\ upload["u1"].raised = NoExc
  /\ upload["u1"].file.filename = "report.pdf"
  /\ upload["u2"].pc = "returned" /\ upload["u2"].raised = NoExc
  /\ upload["u2"].file.filename = "notes.txt"
  /\ session.is_active
  /\ session.filename = "notes.txt"
  /\ session.chunk_count = 1
  /\ session.collection_name = 2

\* The step in which the upload of u succeeds while a session is active.
UploadReplaces(u) == UploadSucceeds(u) /\ is_active(session)

\* C16 as stated: after an upload succeeded while another document's session
\* was active, every query of the store against that session's collection
\* name fails with CollectionNotFoundError.
C16_OldCollectionGone ==
  [][\A u \in Uploaders :
       UploadReplaces(u) =>
         \A question \in Questions, rank \in Rankings :
           vs_query(collections', collection_name(session), question,
                    top_k_chunks, rank).raised = "CollectionNotFoundError"]_vars

\* C16 as amended: after an upload succeeded while another document's
\* session was active, the session no longer names the old collection; if
\* the store's delete of the old collection did not raise, every query
\* against the old name fails with CollectionNotFoundError; if it raised,
\* the upload succeeded all the same and the store still tracks the old
\* collection, with its documents, under the old name.
C16_OldCollectionGoneIfDeleted ==
  [][\A u \in Uploaders :
       UploadReplaces(u) =>
         LET old == collection_name(session)
         IN /\ collection_name(session') # old
            /\ ~upload'[u].delete_raised =>
                 /\ old \notin list_collections(collections')
                 /\ \A question \in Questions, rank \in Rankings :
                      vs_query(collections', old, question, top_k_chunks,
                               rank).raised = "CollectionNotFoundError"
            /\ upload'[u].delete_raised =>
                 /\ get_collection(collections', old).raised = "None"
                 /\ get_collection(collections', old).ret = collections[old]]_vars

\* Both uploads succeeded, the second while the first one's session was
\* active; the delete succeeded and only the second collection is left.
C16_Witness ==
  /\ upload["u1"].pc = "returned" /\ upload["u1"].raised = NoExc
  /\ upload["u2"].pc = "returned" /\ upload["u2"].raised = NoExc
  /\ \A u \in Uploaders : ~upload[u].delete_raised
  /\ nextUuid = 3
  /\ list_collections(collections) = {2}
  /\ get_collection(collections, 1).raised = "CollectionNotFoundError"

\* C17: in every state (each is a point where another request may run,
\* since an upload only suspends in file.read()) an active session names a
\* collection the store holds.
C17_ActiveSessionHasCollection ==
  is_active(session) =>
    /\ collection_name(session) # NoName
    /\ collection_name(session) \in list_collections(collections)
    /\ get_collection(collections, collection_name(session)).raised = "None"

\* A session is active with its collection while another upload is
\* suspended in file.read().
C17_Witness ==
  /\ is_active(session)
  /\ collection_name(session) = 1
  /\ 1 \in list_collections(collections)
  /\ upload["u1"].pc = "returned" /\ upload["u1"].raised = NoExc
  /\ upload["u2"].pc = "reading"

\* C18: when the store's create_collection raises in an upload, the upload
\* raises ProcessingError, and on return no session is active, the session
\* state is the default and the store has no collection of the new name.
C18_CreateFailureRollsBack ==
  [][\A u \in Uploaders :
       (upload[u].pc = "reading" /\ upload'[u].pc = "returned"
          /\ upload'[u].create_raised) =>
         /\ upload'[u].raised =
              ProcessingError("Failed to create vector store collection")
         /\ upload'[u].response = NoResponse
         /\ ~is_active(session')
         /\ get_state(session') = SessionState
         /\ nextUuid \notin list_collections(collections')]_vars

\* An upload failed in create_collection while a session was active: the
\* name was drawn, and the upload returned ProcessingError.
C18_Witness ==
  /\ upload["u2"].pc = "returned"
  /\ upload["u2"].create_raised
  /\ upload["u2"].raised.type = "ProcessingError"
  /\ upload["u1"].pc = "returned" /\ upload["u1"].raised = NoExc
  /\ nextUuid = 3
  /\ ~is_active(session)

\* C19: when process_upload returns success the session is active under the
\* new name and the store holds the new document's chunks under that name;
\* a query that starts after that return queries the store once, never gets
\* CollectionNotFoundError, and retrieves chunks of the new document only.
C19_QueryAfterUploadSeesNew ==
  [][\A u \in SoloUploaders :
       /\ UploadSucceeds(u) =>
            /\ is_active(session')
            /\ collection_name(session') = nextUuid
            /\ nextUuid \notin list_collections(collections)
            /\ get_collection(collections', nextUuid).raised = "None"
            /\ get_collection(collections', nextUuid).ret =
                 process_document(upload[u].file, "ok").chunks
       /\ \A q \in Queries :
            (/\ upload[u].pc = "returned" /\ upload[u].raised = NoExc
             /\ query[q].pc = "idle" /\ query'[q].pc # "idle") =>
              LET new == {c.content :
                            c \in {upload[u].file.chunks[i] :
                                     i \in DOMAIN upload[u].file.chunks}}
              IN /\ query'[q].store_queries = 1
                 /\ query'[q].store_raised # "CollectionNotFoundError"
                 /\ query'[q].raised # NoActiveSessionError
                 /\ query'[q].store_raised = "None" =>
                      /\ query'[q].store_result # <<>>
                      /\ query'[q].chunks = query'[q].store_result
                 /\ \A i \in DOMAIN query'[q].chunks :
                      query'[q].chunks[i].content \in new]_vars

\* A query that started after the second successful upload (notes.txt, after
\* report.pdf whose delete failed) retrieved the chunk of notes.txt.
C19_Witness ==
  /\ upload["u1"].pc = "returned" /\ upload["u1"].raised = NoExc
  /\ upload["u1"].file.filename = "notes.txt"
  /\ upload["u1"].delete_raised
  /\ collection_name(session) = 2
  /\ \E q \in Queries :
       /\ query[q].pc = "await_llm"
       /\ Len(query[q].chunks) = 1
       /\ query[q].chunks[1].content = "n0"

\* C20: over uploads, successful or failed, in which every delete of an old
\* collection succeeds, in every state at most one session is active and the
\* store holds at most one collection: the active session's, and none when
\* no session is active.
C20_AtMostOneCollection ==
  /\ Cardinality(list_collections(collections)) <= 1
  /\ Cardinality({s \in {get_state(session)} : s.is_active}) <= 1
  /\ is_active(session) =>
       list_collections(collections) = {collection_name(session)}
  /\ ~is_active(session) => list_collections(collections) = {}

\* After two successful uploads and a failed one, the second upload's
\* session is active and its collection is the only one.
C20_Witness ==
  /\ nextUuid = 3
  /\ is_active(session)
  /\ list_collections(collections) = {collection_name(session)}
  /\ Cardinality(list_collections(collections)) = 1
  /\ \E u \in Uploaders : upload[u].pc = "returned" /\ upload[u].raised # NoExc

\* The step in which the call of process_upload for u returns or raises.
UploadReturns(u) == upload[u].pc # "returned" /\ upload'[u].pc = "returned"

\* C21: a step in which an upload fails with UnsupportedFileTypeError or
\* FileTooLargeError leaves the session state and the store's collections
\* exactly as they were.
C21_RejectionLeavesState ==
  [][\A u \in Uploaders :
       (/\ UploadReturns(u)
        /\ upload'[u].raised.type \in
             {"UnsupportedFileTypeError", "FileTooLargeError"}) =>
         /\ session' = session
         /\ collections' = collections]_vars

\* C22 as stated: a step in which an upload is rejected with
\* PageLimitExceededError leaves the set of collections as it was.
C22_PageLimitLeavesStore ==
  [][\A u \in Uploaders :
       (UploadReturns(u) /\ upload'[u].raised = PageLimitExceededError) =>
         list_collections(collections') = list_collections(collections)]_vars

\* C22 as amended: an upload rejected with PageLimitExceededError has created
\* no session and no collection; the only change to the store is that of
\* step 3: the collection of the session that was active is gone, unless its
\* delete raised; and no session is active after the rejection.
C22_PageLimitCreatesNothing ==
  [][\A u \in Uploaders :
       (UploadReturns(u) /\ upload'[u].raised = PageLimitExceededError) =>
         LET old == collection_name(session)
         IN /\ nextUuid' = nextUuid
            /\ ~is_active(session')
            /\ list_collections(collections') \subseteq
                 list_collections(collections)
            /\ collections' =
                 IF is_active(session) /\ ~upload'[u].delete_raised
                      /\ old \in list_collections(collections)
                   THEN Without(collections, old)
                   ELSE collections]_vars

\* An upload was rejected for its page count while the session of an
\* earlier successful upload was active: nothing is left.
C22_Witness ==
  /\ upload["u2"].pc = "returned"
  /\ upload["u2"].raised = PageLimitExceededError
  /\ upload["u2"].file.filename = "vast.pdf"
  /\ upload["u1"].pc = "returned" /\ upload["u1"].raised = NoExc
  /\ list_collections(collections) = {}
  /\ ~is_active(session)

\* C23: when the delete of the old session's collection raises in an upload,
\* the session no longer names the old collection, the failure is not what
\* the upload raises, and the upload succeeds exactly when the document is
\* processed within the page limit and the new collection is created.
C23_DeleteFailureDoesNotBlock ==
  [][\A u \in Uploaders :
       (UploadReturns(u) /\ upload'[u].delete_raised) =>
         LET steps_ok == upload'[u].processed /\ ~upload'[u].create_raised
         IN /\ collection_name(session') # collection_name(session)
            /\ upload'[u].raised # ProcessingError(UnexpectedUploadMsg)
            /\ steps_ok =>
                 /\ upload'[u].raised = NoExc
                 /\ is_active(session')
                 /\ session'.filename = upload[u].file.filename
                 /\ collection_name(session') \in list_collections(collections')
            /\ ~steps_ok =>
                 /\ upload'[u].raised # NoExc
                 /\ ~is_active(session')]_vars

\* An upload succeeded although the delete of the old collection raised:
\* the store holds the old and the new collection.
C23_Witness ==
  /\ \E u \in Uploaders :
       /\ upload[u].pc = "returned"
       /\ upload[u].delete_raised
       /\ upload[u].raised = NoExc
  /\ list_collections(collections) = {1, 2}
  /\ collection_name(session) = 2

\* C24: when process_upload has returned or raised, the temporary file it
\* created for the upload does not exist.
C24_TempFileRemoved ==
  \A u \in Uploaders : upload[u].pc = "returned" => upload[u].temp # "exists"

\* C25: a process_upload call that returned gave a response, or raised one of
\* UnsupportedFileTypeError, FileTooLargeError, PageLimitExceededError and
\* ProcessingError and gave none; the failure of file.read(), which is none
\* of the four, is raised as ProcessingError with the generic message.
C25_FailuresClassified ==
  \A u \in Uploaders :
    upload[u].pc = "returned" =>
      /\ \/ upload[u].raised = NoExc /\ upload[u].response # NoResponse
         \/ /\ upload[u].raised.type \in
                  {"UnsupportedFileTypeError", "FileTooLargeError",
                   "PageLimitExceededError", "ProcessingError"}
            /\ upload[u].response = NoResponse
      /\ (upload[u].temp = "exists" \/ upload[u].raised.type = "OSError") =>
            upload[u].raised = ProcessingError(UnexpectedUploadMsg)

\* An upload whose file.read() raised returned ProcessingError.
C25_Witness ==
  \E u \in Uploaders :
    /\ upload[u].pc = "returned"
    /\ upload[u].file.filename = "report.pdf"
    /\ upload[u].processed = FALSE
    /\ upload[u].raised = ProcessingError(UnexpectedUploadMsg)


\* C26: a query whose request carries a top_k has the store queried with that
\* top_k, and with the configured top_k_chunks only when the request carries
\* none.
C26_TopKOverride ==
  \A q \in Queries :
    query[q].store_queries = 1 =>
      query[q].store_top_k = IF query[q].top_k # NoTopK THEN query[q].top_k
                             ELSE top_k_chunks

\* The texts of the token events the caller of the stream of q has, in the
\* order of their emission.
TokenTexts(q) ==
  LET IsToken(e) == e.event = "token"
      tokens == SelectSeq(query[q].events, IsToken)
  IN [i \in 1..Len(tokens) |-> tokens[i].token]

\* C27: for a run of the query that reaches done, the collected response is
\* returned, its answer is the concatenation, in the order of emission, of the
\* texts of all the token events of the run, and its sources are the payload
\* of the sources event of the run.
C27_CollectedAnswer ==
  \A q \in Queries :
    (Ended(q) /\ LastEvent(q).event = "done") =>
      /\ query[q].collected.raised = NoExc
      /\ Len(query[q].collected.response) = 1
      /\ query[q].collected.response[1].answer = Join(TokenTexts(q))
      /\ \E i \in EventsOf(q, "sources") :
            /\ EventsOf(q, "sources") = {i}
            /\ query[q].collected.response[1].sources = query[q].events[i].sources

\* A run that reached done after two token events and with two sources.
C27_Witness ==
  \E q \in Queries :
    /\ Ended(q) /\ LastEvent(q).event = "done"
    /\ TokenTexts(q) = <<"The ", "X.">>
    /\ query[q].collected.response[1].answer = <<"T", "h", "e", " ", "X", ".">>
    /\ Len(query[q].collected.response[1].sources) = 2

\* C28: in the collected-response route a query without an active session
\* fails with status 400, a query whose retrieval or generation failed fails
\* with status 422, and a run that ended in a failure returns no collected
\* response, even when tokens were emitted before the failure.
C28_CollectedFailures ==
  \A q \in Queries :
    Ended(q) =>
      LET c == query[q].collected
      IN /\ query[q].raised.type = "NoActiveSessionError" =>
              /\ c.raised.type = "HTTPException"
              /\ c.raised.msg.status_code = 400
         /\ (query[q].store_raised # "None" \/ query[q].llm_raw = "error") =>
              /\ c.raised.type = "HTTPException"
              /\ c.raised.msg.status_code = 422
         /\ (LastEvent(q).event = "error") =>
              /\ c.response = <<>>
              /\ c.raised # NoExc
         /\ c.response # <<>> => LastEvent(q).event = "done"

\* The generation failed after a token was emitted: status 422, no answer.
C28_Witness ==
  \E q \in Queries :
    /\ Ended(q)
    /\ query[q].llm_raw = "error"
    /\ TokenTexts(q) = <<"The ">>
    /\ LastEvent(q).event = "error"
    /\ query[q].collected.response = <<>>
    /\ query[q].collected.raised.msg.status_code = 422

\* A status call is made in this step.
StatusCalled == health'.calls = health.calls + 1

\* C29: every status call made after an upload returned success, and before
\* the next upload, reports an active session, the number of chunks the
\* upload produced and the page count the upload computed from them, and
\* leaves the session state as it was; so repeated calls report the same.
C29_StatusRoundTrip ==
  [][\A u \in SoloUploaders :
       (/\ StatusCalled
        /\ upload[u].pc = "returned"
        /\ upload[u].raised = NoExc) =>
         LET r == health'.response[1]
             chunks == upload[u].file.chunks
         IN /\ r.session_active
            /\ r.document_loaded
            /\ r.filename = upload[u].response.filename
            /\ r.chunk_count = <<upload[u].response.total_chunks>>
            /\ r.chunk_count = <<Len(chunks)>>
            /\ r.page_count = <<estimate_page_count(chunks)>>
            /\ session' = session
            /\ (health.response # <<>> /\ health.response[1].session_active
                 /\ health.response[1].filename = r.filename) =>
                  health'.response = health.response]_vars

\* The second status call after report.pdf (two chunks, page count 1) was
\* uploaded.
C29_Witness ==
  /\ upload["u1"].pc = "returned"
  /\ upload["u1"].raised = NoExc
  /\ upload["u1"].file.filename = "report.pdf"
  /\ health.calls = 2
  /\ health.response # <<>>
  /\ health.response[1].chunk_count = <<2>>
  /\ health.response[1].page_count = <<1>>

\* The metadata["page"] values of the chunks that carry one.
PagesOf(chunks) ==
  {chunks[i].page : i \in {j \in DOMAIN chunks : chunks[j].page # NoPage}}

\* C30: the estimation returns 1 for no chunks, the largest page value of
\* the chunk metadata when some chunk carries page metadata, and
\* max(1, chunk_count \div 3) when no chunk carries page metadata.
C30_EstimateCases ==
  estimate.done =>
    LET chunks == estimate.chunks
        pages == PagesOf(chunks)
    IN estimate.page_count =
         IF chunks = <<>> THEN 1
         ELSE IF pages # {}
           THEN CHOOSE m \in pages : \A page \in pages : page <= m
         ELSE Max(1, Len(chunks) \div 3)

\* The largest metadata["page"] value of chunks of which one carries a page.
MaxPageOf(chunks) ==
  CHOOSE m \in PagesOf(chunks) : \A page \in PagesOf(chunks) : page <= m

\* C31: when some chunk carries page metadata, the estimated page count is
\* the largest page index of the metadata plus 1.
C31_PageCountIsMaxIndexPlusOne ==
  (estimate.done /\ PagesOf(estimate.chunks) # {}) =>
    estimate.page_count = MaxPageOf(estimate.chunks) + 1

\* C32: for a list of chunks that is not empty, the estimate from the number
\* of chunks is returned if and only if no chunk carries page metadata.
C32_FallbackIffNoMetadata ==
  (estimate.done /\ estimate.chunks # <<>>) =>
    /\ (estimate.branch = "fallback") <=> (PagesOf(estimate.chunks) = {})
    /\ estimate.branch = "fallback" =>
         estimate.page_count = Max(1, Len(estimate.chunks) \div 3)

\* The caller cancels the stream of q in this step.
Cancels(q) == query[q].pc # "cancelled" /\ query'[q].pc = "cancelled"

\* C33: the step in which the caller cancels a stream adds no event to it,
\* requests no fragment and leaves the session state and the collections as
\* they are; a cancelled stream holds no sources, done or error event that
\* was not already sent, and the only step its query takes afterwards is the
\* end of the request, which changes neither the session nor the store.
C33_CancelStopsStream ==
  [][\A q \in Queries :
       /\ Cancels(q) =>
            /\ query'[q].events = query[q].events
            /\ query'[q].requested = query[q].requested
            /\ query'[q].llm_calls = query[q].llm_calls
            /\ query'[q].store_queries = query[q].store_queries
            /\ query[q].pc \in {"await_llm", "sent_token"} =>
                 \A i \in DOMAIN query'[q].events :
                   query'[q].events[i].event = "token"
            /\ session' = session
            /\ collections' = collections
       /\ (query[q].pc = "cancelled" /\ query'[q] # query[q]) =>
            /\ query'[q] = IdleQuery
            /\ session' = session
            /\ collections' = collections]_vars

\* A stream was cancelled while the second fragment was awaited: it holds one
\* token event and no other event, and two fragments were requested.
C33_Witness ==
  \E q \in Queries :
    /\ query[q].pc = "cancelled"
    /\ Len(query[q].events) = 1
    /\ query[q].events[1].event = "token"
    /\ query[q].requested = 2
    /\ Len(query[q].produced) = 1

\* The upload of u returned because the document processor failed to load
\* or to split the document.
ExtractionFailed(u) ==
  /\ upload[u].pc = "returned"
  /\ upload[u].load_error # ""

\* C34: two uploads that failed in the loading or the splitting of the
\* document get the same message from the route, whatever the causes of the
\* two failures.
C34_GenericProcessingMessage ==
  \A u1, u2 \in Uploaders :
    (ExtractionFailed(u1) /\ ExtractionFailed(u2)) =>
      upload_document_on_raise(upload[u1].raised).msg.detail
        = upload_document_on_raise(upload[u2].raised).msg.detail

\* C35: a call of create_collection with a name that already names a
\* collection raises ValueError and leaves the map of the store, that
\* collection included, as it was before the call.
C35_CreateOnExistingName ==
  (client.op = "create_collection" /\ client.args[1] \in DOMAIN client.before) =>
    /\ client.raised = "ValueError"
    /\ collections = client.before

\* create_collection was called with other documents for the name of an
\* existing collection, while the store held a second collection.
C35_Witness ==
  /\ client.op = "create_collection"
  /\ client.args[1] \in DOMAIN client.before
  /\ client.args[2] # client.before[client.args[1]]
  /\ Cardinality(DOMAIN collections) = 2

\* The upload of u returns in this step with a failure of the document
\* processing, of the page limit or of the creation of the collection, and a
\* session was active when it resumed from its file read.
FailsAfterValidation(u) ==
  /\ UploadReturns(u)
  /\ upload[u].pc = "reading"
  /\ is_active(session)
  /\ \/ upload'[u].load_error # ""
     \/ upload'[u].raised.type = "PageLimitExceededError"
     \/ upload'[u].create_raised

\* What an upload that failed after validation leaves of the registry: no
\* active session, the default state, and NoActiveSessionError for every
\* query that starts then.
RegistryLeftEmpty ==
  /\ ~is_active(session')
  /\ get_state(session') = SessionState
  /\ \A question \in Questions, rank \in Rankings :
       query_stream_start(session', collections', question, rank).raised
         = NoActiveSessionError

\* C36 as stated: an upload that failed after validation while a session was
\* active leaves the registry empty and the collection of that session
\* deleted.
C36_FailedUploadDropsDocument ==
  [][\A u \in Uploaders :
       FailsAfterValidation(u) =>
         /\ RegistryLeftEmpty
         /\ collection_name(session) \notin list_collections(collections')]_vars

\* C36: an upload that failed after validation while a session was active
\* leaves the registry empty, and the collection of that session deleted
\* unless the store's delete raised in this upload.
C36_FailedUploadDropsSession ==
  [][\A u \in Uploaders :
       FailsAfterValidation(u) =>
         /\ RegistryLeftEmpty
         /\ upload'[u].raised # NoExc
         /\ ~upload'[u].delete_raised =>
              collection_name(session) \notin list_collections(collections')
         /\ upload'[u].delete_raised =>
              collection_name(session) \in list_collections(collections')]_vars

\* report.pdf was uploaded, and then an upload was rejected for its page
\* count: no session is active and the store is empty.
C36_Witness ==
  /\ upload["u1"].pc = "returned" /\ upload["u1"].raised = NoExc
  /\ upload["u1"].file.filename = "report.pdf"
  /\ upload["u2"].pc = "returned"
  /\ upload["u2"].raised.type = "PageLimitExceededError"
  /\ ~upload["u2"].delete_raised
  /\ ~is_active(session)
  /\ collections = <<>>

\* C37: when create_collection raises in an upload, the clear_session of
\* the rollback clears the session this upload has just created, and never
\* the session of another upload that returned success, whatever the
\* interleaving of the two uploads.
C37_RollbackClearsOwnSession ==
  [][\A u \in Uploaders :
       (UploadReturns(u) /\ upload'[u].create_raised) =>
         /\ upload'[u].rolled_back = upload'[u].name
         /\ upload'[u].rolled_back = nextUuid
         /\ \A v \in Uploaders \ {u} :
              (upload[v].pc = "returned" /\ upload[v].raised = NoExc) =>
                upload'[u].rolled_back # upload[v].name]_vars

\* The first upload returned success and holds session 1; the second failed
\* in create_collection and its rollback cleared session 2.
C37_Witness ==
  /\ upload["u1"].pc = "returned" /\ upload["u1"].raised = NoExc
  /\ upload["u1"].name = 1
  /\ upload["u2"].pc = "returned" /\ upload["u2"].create_raised
  /\ upload["u2"].rolled_back = 2

\* Both uploads have returned success.
BothSucceeded ==
  \A u \in Uploaders : upload[u].pc = "returned" /\ upload[u].raised = NoExc

\* C38 as stated: when both uploads have returned success, the session is
\* active for the document of one of them and the store holds exactly one
\* collection, the one the session names.
C38_OneCollectionAfterBoth ==
  BothSucceeded =>
    /\ is_active(session)
    /\ \E w \in Uploaders : collection_name(session) = upload[w].name
    /\ list_collections(collections) = {collection_name(session)}

\* C38: when the second of two uploads returns success, the session is
\* active for its document under its name, the store holds the collection
\* of that name, and, if the store held no other collection than that of the
\* first upload and the delete of this collection did not raise, the store
\* holds exactly that one collection: none of the first upload remains.
C38_LastUploadWinsNoOrphan ==
  [][\A w \in Uploaders :
       (UploadSucceeds(w) /\ \A l \in Uploaders \ {w} :
                               upload[l].pc = "returned" /\ upload[l].raised = NoExc) =>
         /\ is_active(session')
         /\ collection_name(session') = upload'[w].name
         /\ session'.filename = upload'[w].response.filename
         /\ collection_name(session') \in list_collections(collections')
         /\ (/\ list_collections(collections) \subseteq {collection_name(session)}
             /\ ~upload'[w].delete_raised) =>
              /\ list_collections(collections') = {collection_name(session')}
              /\ \A l \in Uploaders \ {w} :
                   upload[l].name \notin list_collections(collections')]_vars

\* The two uploads were read at the same time; both returned success, and
\* the store holds the one collection of the upload that resumed last.
C38_Witness ==
  /\ BothSucceeded
  /\ upload["u1"].name = 2 /\ upload["u2"].name = 1
  /\ upload["u1"].file.filename = "notes.txt"
  /\ upload["u2"].file.filename = "report.pdf"
  /\ ~upload["u1"].delete_raised
  /\ session.filename = "notes.txt"
  /\ list_collections(collections) = {2}

\* The query of q is between its retrieval and its end.
InFlight(q) == query[q].pc \in {"await_llm", "sent_token", "sent_sources", "sent_done"}

\* The session the query of q retrieved its chunks under was cleared or
\* replaced: no session is active, or the collection of the session does
\* not hold the chunks of the query.
Displaced(q) ==
  \/ ~is_active(session)
  \/ collection_name(session) \notin list_collections(collections)
  \/ \E j \in DOMAIN query[q].chunks :
       \A i \in DOMAIN collections[collection_name(session)] :
         collections[collection_name(session)][i].content
           # query[q].chunks[j].content

\* C39: every step of a query that is in flight while its session is
\* cleared or replaced goes on as it would have: it keeps the chunks it
\* retrieved, queries the store no more, emits at the end of the generation
\* the sources of its own retrieval and then done, and emits an error only
\* when the generation itself failed.
C39_InFlightQueryUnaffected ==
  [][\A q \in Queries :
       (/\ InFlight(q) /\ Displaced(q)
        /\ query'[q] # query[q]
        /\ query'[q].pc # "cancelled") =>
         LET r == query[q]
             r2 == query'[q]
             new == SubSeq(r2.events, Len(r.events) + 1, Len(r2.events))
         IN /\ r2.chunks = r.chunks
            /\ r2.store_result = r.store_result
            /\ r2.store_queries = r.store_queries
            /\ \A i \in DOMAIN new :
                 new[i].event = "error" =>
                   \/ r2.llm_raw = "error"
                   \/ \E j \in DOMAIN r2.produced : ~r2.produced[j].is_str
            /\ (r.pc = "await_llm" /\ r2.llm_raw = "end") =>
                 new = <<SourcesEvent(chunks_to_sources(r.store_result))>>
            /\ r.pc = "sent_sources" => new = <<DoneEvent>>
            /\ r.pc = "sent_done" => (new = <<>> /\ r2.pc = "closed")]_vars

\* A query on report.pdf emitted a token and awaits the next fragment; in
\* the meantime an upload has cleared or replaced its session.
C39_Witness ==
  \E q \in Queries :
    /\ query[q].pc = "await_llm"
    /\ Displaced(q)
    /\ EventsOf(q, "token") # {}
    /\ Len(query[q].store_result) = 2
    /\ query[q].store_result[1].content \in {"r0", "r1"}


\* C40: while the session of a query is the active one and was created from
\* chunks that carry page metadata, every page_number of the query's sources
\* event is at least 1 and at most the page_count the status call reports.
C40_CitedPagesWithinPageCount ==
  \A q \in Queries :
    \A e \in EventsOf(q, "sources") :
      (/\ ~Displaced(q)
       /\ PagesOf(collections[collection_name(session)]) # {}) =>
        \A j \in DOMAIN query[q].events[e].sources :
          LET page_number == query[q].events[e].sources[j].page_number
              status == health_check(get_state(session))
          IN /\ page_number >= 1
             /\ status.page_count # <<>>
             /\ page_number <= status.page_count[1]
=============================================================================
